---- MODULE Spec2Model ----
(***************************************************************************)
(* A model of the locus / transcript core of mikado_lib:                   *)
(*   - Abstractlocus.add_transcript_to_locus / remove_transcript_from_locus*)
(*   - the clique enumerators, reid_daid_hurley and find_communities       *)
(*   - Transcript.finalize                                                 *)
(*   - the boundary-merging step of Transcript.split_by_cds                *)
(* Each subsystem has its own specification (SpecLocus, SpecCommunities,   *)
(* SpecCliques, SpecTranscript, SpecSplit); the variables of the other     *)
(* subsystems stay at their idle value.                                    *)
(***************************************************************************)
EXTENDS Integers, Sequences, FiniteSets, TLC

VARIABLES
    locus,    \* the Abstractlocus instance
    called,   \* the locus method called last
    raised,   \* the exception the last call raised, or "none"
    fc,       \* the frame of one Abstractlocus.find_communities call
    xcheck,   \* one graph and what each clique enumerator returns for it
    the_transcript,  \* a Transcript instance being built and finalized
    split,    \* the frame of one Transcript.split_by_cds call
    ov, \* one call of overlap or in_locus on two spans
    orfs  \* the frame of one load_orfs call and of the split_by_cds call after it

vars == <<locus, called, raised, fc, xcheck, the_transcript, split, ov, orfs>>

None == "None"

\* Transcript.__init__ from a transcript row
NewTranscript(start, end, strand) ==
    [start |-> start, end |-> end, strand |-> strand, feature |-> "transcript",
     exons |-> <<>>, combined_cds |-> <<>>, combined_utr |-> <<>>,
     introns |-> {}, splices |-> {}, segments |-> <<>>, internal_orfs |-> <<>>,
     selected_internal_orf_index |-> None,
     has_start_codon |-> FALSE, has_stop_codon |-> FALSE, finalized |-> FALSE]

NoTranscript == NewTranscript(0, 0, None)

\* The frame of split_by_cds when it is entered
SplitFrame(pc, json_dict, loaded_bed12, blast_hits) ==
    [pc |-> pc, json_dict |-> json_dict, loaded_bed12 |-> loaded_bed12,
     blast_hits |-> blast_hits, cds_boundaries |-> <<>>, cds_hit_dict |-> <<>>,
     new_boundaries |-> <<>>, position |-> 0, new_transcripts |-> None]

NoSplit == SplitFrame("idle", None, <<>>, <<>>)

\* No enumerator has run on `G` yet
Unchecked(G) == [graph |-> G, ran |-> {}, exact |-> {}, fallback |-> {}]

NoCheck == Unchecked([nodes |-> {}, edges |-> {}])

\* The frame of find_communities before it is called on `G`
Frame(pc, G) ==
    [pc |-> pc, graph |-> G, cliques |-> {}, to_visit |-> {},
     nodes_to_clique_dict |-> <<>>, current_component |-> 0,
     cliques_to_components_dict |-> <<>>, frontier |-> {}, communities |-> {}]

NoFrame == Frame("idle", [nodes |-> {}, edges |-> {}])

\* Two spans before overlap or in_locus is called on them
OverlapCall(pc, first_interval, second_interval, chrom, strand) ==
    [pc |-> pc, first_interval |-> first_interval,
     second_interval |-> second_interval, chrom |-> chrom, strand |-> strand,
     result |-> 0, accepted |-> FALSE]

NoCall == OverlapCall("idle", <<1, 1>>, <<1, 1>>, "chr1", "+")

\* A transcript, the candidate ORFs handed to load_orfs and what the call
\* and the split_by_cds call after it leave
OrfFrame(pc, transcript, candidate_orfs, json_dict) ==
    [pc |-> pc, transcript |-> transcript, candidate_orfs |-> candidate_orfs,
     json_dict |-> json_dict, new_orfs |-> <<>>, loaded_bed12 |-> <<>>,
     raised |-> "none", blast_hits |-> <<>>, cds_boundaries |-> <<>>,
     children |-> <<>>, new_transcripts |-> None]

NoOrfs == OrfFrame("idle", NoTranscript, <<>>, None)

\* The variables each subsystem leaves alone
not_locus == <<fc, xcheck, the_transcript, split, ov, orfs>>

not_communities == <<locus, called, raised, xcheck, the_transcript, split, ov, orfs>>

not_cliques == <<locus, called, raised, fc, the_transcript, split, ov, orfs>>

not_transcript == <<locus, fc, xcheck, split, ov, orfs>>

not_split == <<locus, called, raised, fc, xcheck, the_transcript, ov, orfs>>

not_overlap == <<locus, called, raised, fc, xcheck, the_transcript, split, orfs>>

not_orfs == <<locus, called, raised, fc, xcheck, the_transcript, split, ov>>

(***************************************************************************)
(* Generic helpers (Python built-ins).                                     *)
(***************************************************************************)
Min2(a, b) == IF a <= b THEN a ELSE b

Max2(a, b) == IF a >= b THEN a ELSE b

SetMin(S) == CHOOSE x \in S : \A y \in S : x <= y

SetMax(S) == CHOOSE x \in S : \A y \in S : x >= y

Range(s) == {s[i] : i \in 1..Len(s)}

\* Python's ordering of 2-tuples of integers, as used by sorted(..., key=itemgetter(0, 1))
PairLeq(a, b) == a[1] < b[1] \/ (a[1] = b[1] /\ a[2] <= b[2])

\* The sorted list of a set of distinct pairs
RECURSIVE SortedPairs(_)
SortedPairs(S) ==
    IF S = {} THEN <<>>
    ELSE LET m == CHOOSE x \in S : \A y \in S : PairLeq(x, y)
         IN <<m>> \o SortedPairs(S \ {m})

(***************************************************************************)
(* Bounds of the locus model.                                              *)
(***************************************************************************)
\* Exon k of the sample genome is (20k-19, 20k-10); a sample transcript uses
\* a non-empty subset of the exons 1..NumSlots.
NumSlots == 2

\* A locus holds at most MaxOwned transcripts at a time.
MaxOwned == 2

\* sys.maxsize and float("Inf"): TLC's integers are 32-bit, and the code only
\* ever takes min/max of these values with coordinates, so any two values
\* above every coordinate behave as the originals do.
maxsize == 2147483646

Inf == 2147483647

(***************************************************************************)
(* Finalized transcripts, as the locus sees them.                          *)
(***************************************************************************)
SlotExon(k) == <<20 * k - 19, 20 * k - 10>>

\* Transcript.finalize: introns are the gaps between consecutive exons
IntronsOf(exons) ==
    {<<exons[i][2] + 1, exons[i + 1][1] - 1>> : i \in 1..(Len(exons) - 1)}

\* Transcript.finalize: the splice sites are the two ends of every intron
SplicesOf(exons) ==
    UNION {{exons[i][2] + 1, exons[i + 1][1] - 1} : i \in 1..(Len(exons) - 1)}

\* Transcript.selected_cds_introns, for a transcript whose only ORF has the
\* CDS segments selected_cds
SelectedCdsIntronsOf(selected_cds) ==
    IF Len(selected_cds) < 2 THEN {}
    ELSE {<<selected_cds[i][2] + 1, selected_cds[i + 1][1] - 1>> :
              i \in 1..(Len(selected_cds) - 1)}

\* A finalized transcript with the exons of `slots`; when coding, every exon
\* is a CDS segment of its single ORF (number_internal_orfs = 1, so
\* combined_cds_introns is selected_cds_introns).
SampleTranscript(slots, coding, chrom, strand) ==
    LET exons == SortedPairs({SlotExon(k) : k \in slots})
        cds   == IF coding THEN exons ELSE <<>>
    IN [id |-> <<slots, coding, chrom, strand>>,
        chrom |-> chrom,
        strand |-> strand,
        start |-> exons[1][1],
        end |-> exons[Len(exons)][2],
        exons |-> exons,
        introns |-> IntronsOf(exons),
        splices |-> SplicesOf(exons),
        combined_cds_introns |-> SelectedCdsIntronsOf(cds),
        selected_cds_introns |-> SelectedCdsIntronsOf(cds),
        monoexonic |-> (Len(exons) = 1)]

Places == {<<"chr1", "+">>, <<"chr1", "-">>, <<"chr2", "+">>}

\* The transcripts that can be offered to a locus. A transcript id names one
\* transcript: two different transcripts never carry the same id.
SampleTranscripts ==
    {SampleTranscript(slots, coding, p[1], p[2]) :
        slots \in (SUBSET (1..NumSlots)) \ {{}},
        coding \in BOOLEAN,
        p \in Places} \
    {SampleTranscript(slots, TRUE, p[1], p[2]) :
        slots \in {{k} : k \in 1..NumSlots}, p \in Places}

SampleIds == {t.id : t \in SampleTranscripts}

(***************************************************************************)
(* Abstractlocus                                                           *)
(***************************************************************************)
\* Abstractlocus.overlap
overlap(first_interval, second_interval, flank) ==
    LET f == <<Min2(first_interval[1], first_interval[2]),
               Max2(first_interval[1], first_interval[2])>>
        s == <<Min2(second_interval[1], second_interval[2]),
               Max2(second_interval[1], second_interval[2])>>
        left_boundary == Max2(f[1] - flank, s[1] - flank)
        right_boundary == Min2(f[2] + flank, s[2] + flank)
    IN right_boundary - left_boundary

\* Abstractlocus.in_locus
in_locus(locus_instance, transcript, flank) ==
    /\ locus_instance.chrom = transcript.chrom
    /\ (locus_instance.stranded = FALSE
        \/ locus_instance.strand = transcript.strand)
    /\ overlap(<<locus_instance.start, locus_instance.end>>,
               <<transcript.start, transcript.end>>, flank) > 0

\* Abstractlocus.__init__
NewLocus ==
    [transcripts |-> <<>>,
     introns |-> {}, exons |-> {}, splices |-> {},
     combined_cds_introns |-> {}, selected_cds_introns |-> {},
     start |-> maxsize, end |-> -maxsize, strand |-> None,
     stranded |-> TRUE,
     initialized |-> FALSE,
     monoexonic |-> TRUE,
     chrom |-> None,
     cds_introns |-> {}]

\* The part of add_transcript_to_locus that runs before the in_locus check
AddMonoexonic(l, transcript) ==
    [l EXCEPT !.monoexonic = l.monoexonic /\ transcript.monoexonic]

\* The part of add_transcript_to_locus that runs once the check has passed
AddAccepted(l, transcript) ==
    LET l1 == IF l.initialized THEN l
              ELSE [l EXCEPT !.strand = transcript.strand,
                             !.chrom = transcript.chrom]
        owned == DOMAIN l.transcripts \cup {transcript.id}
    IN [l1 EXCEPT
          !.start = Min2(l.start, transcript.start),
          !.end = Max2(l.end, transcript.end),
          !.transcripts = [i \in owned |->
                              IF i = transcript.id THEN transcript
                              ELSE l.transcripts[i]],
          !.splices = l.splices \cup transcript.splices,
          !.introns = l.introns \cup transcript.introns,
          !.combined_cds_introns =
              l.combined_cds_introns \cup transcript.combined_cds_introns,
          !.selected_cds_introns =
              l.selected_cds_introns \cup transcript.selected_cds_introns,
          !.exons = l.exons \cup Range(transcript.exons),
          !.initialized = TRUE]

\* remove_transcript_from_locus, the branch for the last transcript
RemoveLast(l) ==
    [l EXCEPT
       !.transcripts = <<>>,
       !.introns = {}, !.exons = {}, !.splices = {},
       !.cds_introns = {}, !.selected_cds_introns = {},
       !.start = Inf, !.end = -Inf, !.strand = None,
       !.stranded = TRUE,
       !.initialized = FALSE]

\* A removal that keeps the bounds the locus had (the mutant of SurvivorBounds)
SurvivorBoundsStale(l, keys) == <<l.start, l.end>>

\* remove_transcript_from_locus: start and end recomputed over the survivors
SurvivorBounds(l, keys) ==
    <<SetMin({l.transcripts[t].start : t \in keys}),
      SetMax({l.transcripts[t].end : t \in keys})>>

\* remove_transcript_from_locus, the branch for a locus that keeps transcripts
RemoveOne(l, tid) ==
    LET keys == DOMAIN l.transcripts \ {tid}
        gone == l.transcripts[tid]
        other_exons == UNION {Range(l.transcripts[o].exons) : o \in keys}
        other_introns == UNION {l.transcripts[o].introns : o \in keys}
        other_cds_introns ==
            UNION {l.transcripts[o].combined_cds_introns : o \in keys}
        other_selected_cds_introns ==
            UNION {l.transcripts[o].selected_cds_introns : o \in keys}
        other_splices == UNION {l.transcripts[o].splices : o \in keys}
    IN [l EXCEPT
          !.end = SurvivorBounds(l, keys)[2],
          !.start = SurvivorBounds(l, keys)[1],
          !.exons = l.exons \ (Range(gone.exons) \ other_exons),
          !.introns = l.introns \ (gone.introns \ other_introns),
          !.combined_cds_introns =
              l.combined_cds_introns
                  \ (gone.combined_cds_introns \ other_cds_introns),
          !.selected_cds_introns =
              l.selected_cds_introns
                  \ (gone.selected_cds_introns \ other_selected_cds_introns),
          !.splices = l.splices \ (gone.splices \ other_splices),
          !.transcripts = [i \in keys |-> l.transcripts[i]]]

\* add_transcript_to_locus returning normally
add_transcript_to_locus(transcript, check_in_locus) ==
    /\ Cardinality(DOMAIN locus.transcripts \cup {transcript.id}) <= MaxOwned
    /\ ~(locus.initialized /\ check_in_locus
         /\ ~in_locus(AddMonoexonic(locus, transcript), transcript, 0))
    /\ locus' = AddAccepted(AddMonoexonic(locus, transcript), transcript)
    /\ called' = "add_transcript_to_locus"
    /\ raised' = "none"
    /\ UNCHANGED not_locus

\* add_transcript_to_locus raising NotInLocusError
add_transcript_not_in_locus(transcript, check_in_locus) ==
    /\ locus.initialized /\ check_in_locus
    /\ ~in_locus(AddMonoexonic(locus, transcript), transcript, 0)
    /\ locus' = AddMonoexonic(locus, transcript)
    /\ called' = "add_transcript_to_locus"
    /\ raised' = "NotInLocusError"
    /\ UNCHANGED not_locus

\* remove_transcript_from_locus returning normally
remove_transcript_from_locus(tid) ==
    /\ tid \in DOMAIN locus.transcripts
    /\ locus' = IF Cardinality(DOMAIN locus.transcripts) = 1
                THEN RemoveLast(locus)
                ELSE RemoveOne(locus, tid)
    /\ called' = "remove_transcript_from_locus"
    /\ raised' = "none"
    /\ UNCHANGED not_locus

\* remove_transcript_from_locus raising KeyError
remove_transcript_missing(tid) ==
    /\ tid \notin DOMAIN locus.transcripts
    /\ locus' = locus
    /\ called' = "remove_transcript_from_locus"
    /\ raised' = "KeyError"
    /\ UNCHANGED not_locus

LocusInit ==
    /\ locus = NewLocus
    /\ called = "none"
    /\ raised = "none"
    /\ fc = NoFrame
    /\ xcheck = NoCheck
    /\ the_transcript = NoTranscript
    /\ split = NoSplit
    /\ ov = NoCall
    /\ orfs = NoOrfs

LocusNext ==
    \/ \E t \in SampleTranscripts, c \in BOOLEAN : add_transcript_to_locus(t, c)
    \/ \E t \in SampleTranscripts, c \in BOOLEAN : add_transcript_not_in_locus(t, c)
    \/ \E tid \in SampleIds : remove_transcript_from_locus(tid)
    \/ \E tid \in SampleIds : remove_transcript_missing(tid)

SpecLocus == LocusInit /\ [][LocusNext]_vars

(***************************************************************************)
(* Graphs, clique enumeration and clique percolation.                      *)
(***************************************************************************)
\* Edges are drawn among the nodes 1..NumCore; a graph may also hold
\* isolated nodes NumCore+1 .. NumCore+pad.
NumCore == 3

\* find_communities: above this node count the fallback enumerator is used
LargeGraphThreshold == 200

\* The k that find_communities passes to reid_daid_hurley
PercolationK == 2

\* Numbers of isolated extra nodes: none, and the two that put the node count
\* on the threshold and just above it.
PadChoices ==
    {0, LargeGraphThreshold - NumCore, LargeGraphThreshold - NumCore + 1}

\* networkx.Graph after define_graph: one node per key, undirected edges
\* between distinct nodes
GraphsOn(core, pads) ==
    {[nodes |-> 1..(core + pad), edges |-> E] :
        pad \in pads,
        E \in SUBSET {e \in SUBSET (1..core) : Cardinality(e) = 2}}

Graphs == GraphsOn(NumCore, PadChoices)

\* The graphs both enumerators are run on have the nodes 1..NumCliqueNodes
NumCliqueNodes == 4

SmallGraphs == GraphsOn(NumCliqueNodes, {0})

\* G[u]: the neighbours of u (self-loops are ignored by both enumerators)
Neighbours(G, u) == {v \in G.nodes : v # u /\ {u, v} \in G.edges}

\* networkx.find_cliques_recursive: the maximal cliques of G, by the
\* Bron-Kerbosch recursion on (R, P, X), the candidates of P being tried in
\* increasing order
RECURSIVE BronKerbosch(_, _, _, _)
BronKerbosch(G, R, P, X) ==
    IF P = {} THEN (IF X = {} THEN {R} ELSE {})
    ELSE UNION {LET Nv == Neighbours(G, v)
                IN BronKerbosch(G, R \cup {v},
                                {w \in P : w > v} \cap Nv,
                                (X \cup {w \in P : w < v}) \cap Nv) :
                   v \in P}

find_cliques_recursive(G) == BronKerbosch(G, {}, G.nodes, {})

\* sorted(nbrs[u], key=index.__getitem__), the nodes being iterated in
\* increasing order
RECURSIVE SortedNodes(_)
SortedNodes(S) ==
    IF S = {} THEN <<>>
    ELSE LET m == SetMin(S) IN <<m>> \o SortedNodes(S \ {m})

\* enumerate_all_cliques, lines 65-70: nbrs[u], the neighbours of u that
\* come after u in the iteration order of G
LaterNeighbours(G, u) == {v \in Neighbours(G, u) : v > u}

\* enumerate_all_cliques, lines 77-83: the while loop. The deque is first in,
\* first out and the bases never get shorter, so the loop empties the queue
\* one clique size at a time: `queue` holds the (base, cnbrs) pairs of one
\* size, `out` what the generator has yielded.
RECURSIVE EnumerateQueue(_, _, _)
EnumerateQueue(G, queue, out) ==
    IF queue = {} THEN out
    ELSE LET Appended(entry) ==
                 LET base == entry[1]
                     cnbrs == entry[2]
                     Later(i) ==
                         LET InNbrs(w) == w \in LaterNeighbours(G, cnbrs[i])
                         IN SelectSeq(SubSeq(cnbrs, i + 1, Len(cnbrs)), InNbrs)
                 IN {<<Append(base, cnbrs[i]), Later(i)>> : i \in 1..Len(cnbrs)}
         IN EnumerateQueue(G,
                           UNION {Appended(entry) : entry \in queue},
                           out \cup {Range(entry[1]) : entry \in queue})

\* enumerate_all_cliques(G), as the set of the frozensets built from it
enumerate_all_cliques(G) ==
    EnumerateQueue(G,
                   {<<<<u>>, SortedNodes(LaterNeighbours(G, u))>> : u \in G.nodes},
                   {})

\* find_communities, lines 470-475: the enumerator chosen by the node count
ChooseCliques(G) ==
    IF Cardinality(G.nodes) > LargeGraphThreshold
    THEN enumerate_all_cliques(G)
    ELSE find_cliques_recursive(G)

\* reid_daid_hurley, lines 106-112: the cliques kept and the node index
KeptCliques(cliques, k) == {c \in cliques : Cardinality(c) >= k}

NodesToCliqueDict(cliques) ==
    [node \in UNION cliques |-> {c \in cliques : node \in c}]

\* The C18 mutant: no clique is ever found from another one
NoUnvisitedNeighbours(current_clique, nodes_to_clique_dict) == {}

\* _get_unvisited_neighbours
get_unvisited_neighbours(current_clique, nodes_to_clique_dict) ==
    {c \in UNION {nodes_to_clique_dict[node] : node \in current_clique} :
        c # current_clique}

\* reid_daid_hurley, lines 146-153: one community per component number
CommunitiesOf(cliques_to_components_dict) ==
    LET assigned == DOMAIN cliques_to_components_dict
    IN {UNION {c \in assigned : cliques_to_components_dict[c] = n} :
           n \in {cliques_to_components_dict[c] : c \in assigned}}

\* clique_methods.find_communities: networkx.connected_components
RECURSIVE ReachableFrom(_, _)
ReachableFrom(G, S) ==
    LET next == S \cup UNION {Neighbours(G, u) : u \in S}
    IN IF next = S THEN S ELSE ReachableFrom(G, next)

connected_components(G) == {ReachableFrom(G, {u}) : u \in G.nodes}

\* find_communities, lines 470-475, then reid_daid_hurley up to its for loop
FindCliques ==
    /\ fc.pc = "find_cliques"
    /\ LET cliques == ChooseCliques(fc.graph)
           kept == KeptCliques(cliques, PercolationK)
       IN fc' = [fc EXCEPT
                   !.pc = "for_clique",
                   !.cliques = cliques,
                   !.to_visit = kept,
                   !.nodes_to_clique_dict = NodesToCliqueDict(kept),
                   !.current_component = 0,
                   !.cliques_to_components_dict = <<>>,
                   !.frontier = {}]
    /\ UNCHANGED not_communities

\* reid_daid_hurley: the for loop reaches a clique that has no component yet
\* (the list order of the cliques is not fixed: any clique may come next)
RdhNewComponent(clique) ==
    /\ fc.pc = "for_clique"
    /\ clique \in fc.to_visit
    /\ clique \notin DOMAIN fc.cliques_to_components_dict
    /\ fc' = [fc EXCEPT
                !.pc = "while_frontier",
                !.to_visit = fc.to_visit \ {clique},
                !.current_component = fc.current_component + 1,
                !.cliques_to_components_dict =
                    [c \in DOMAIN fc.cliques_to_components_dict \cup {clique} |->
                        IF c = clique THEN fc.current_component + 1
                        ELSE fc.cliques_to_components_dict[c]],
                !.frontier = {clique}]
    /\ UNCHANGED not_communities

\* reid_daid_hurley: the for loop reaches a clique that already has a component
RdhSkipClique(clique) ==
    /\ fc.pc = "for_clique"
    /\ clique \in fc.to_visit
    /\ clique \in DOMAIN fc.cliques_to_components_dict
    /\ fc' = [fc EXCEPT !.to_visit = fc.to_visit \ {clique}]
    /\ UNCHANGED not_communities

\* The C30 mutant: the cliques found stay in the node index
KeepVisited(nodes_to_clique_dict, found) == nodes_to_clique_dict

\* reid_daid_hurley, lines 140-141: every clique found leaves the index of
\* each of its nodes
RemoveVisited(nodes_to_clique_dict, found) ==
    [node \in DOMAIN nodes_to_clique_dict |->
        nodes_to_clique_dict[node] \ found]

\* reid_daid_hurley: one turn of the while loop, frontier.pop() returning
\* current_clique
RdhExpand(current_clique) ==
    /\ fc.pc = "while_frontier"
    /\ current_clique \in fc.frontier
    /\ LET found == {n \in get_unvisited_neighbours(current_clique,
                                                   fc.nodes_to_clique_dict) :
                        Cardinality(current_clique \cap n) >= PercolationK - 1}
           rest == (fc.frontier \ {current_clique}) \cup found
       IN fc' = [fc EXCEPT
                   !.pc = IF rest = {} THEN "for_clique" ELSE "while_frontier",
                   !.frontier = rest,
                   !.cliques_to_components_dict =
                       [c \in DOMAIN fc.cliques_to_components_dict \cup found |->
                           IF c \in found THEN fc.current_component
                           ELSE fc.cliques_to_components_dict[c]],
                   !.nodes_to_clique_dict =
                       RemoveVisited(fc.nodes_to_clique_dict, found)]
    /\ UNCHANGED not_communities

\* reid_daid_hurley returns; find_communities adds the cliques of size 1 and
\* returns the communities
FindCommunitiesReturn ==
    /\ fc.pc = "for_clique"
    /\ fc.to_visit = {}
    /\ fc' = [fc EXCEPT
                !.pc = "done",
                !.communities =
                    {c \in fc.cliques : Cardinality(c) = 1}
                        \cup CommunitiesOf(fc.cliques_to_components_dict)]
    /\ UNCHANGED not_communities

\* find_communities is about to run on some graph
CommunitiesInit ==
    /\ locus = NewLocus
    /\ called = "none"
    /\ raised = "none"
    /\ \E G \in Graphs : fc = Frame("find_cliques", G)
    /\ xcheck = NoCheck
    /\ the_transcript = NoTranscript
    /\ split = NoSplit
    /\ ov = NoCall
    /\ orfs = NoOrfs

CommunitiesNext ==
    \/ FindCliques
    \/ \E c \in fc.to_visit : RdhNewComponent(c)
    \/ \E c \in fc.to_visit : RdhSkipClique(c)
    \/ \E c \in fc.frontier : RdhExpand(c)
    \/ FindCommunitiesReturn

SpecCommunities == CommunitiesInit /\ [][CommunitiesNext]_vars

\* find_communities runs to its end without being suspended: the code is
\* sequential, so a step that can be taken is taken
SpecCommunitiesFair == SpecCommunities /\ WF_vars(CommunitiesNext)

\* The exact enumerator is run on the graph
RunExact ==
    /\ "exact" \notin xcheck.ran
    /\ xcheck' = [xcheck EXCEPT !.ran = xcheck.ran \cup {"exact"},
                                !.exact = find_cliques_recursive(xcheck.graph)]
    /\ UNCHANGED not_cliques

\* The fallback enumerator is run on the graph
RunFallback ==
    /\ "fallback" \notin xcheck.ran
    /\ xcheck' = [xcheck EXCEPT !.ran = xcheck.ran \cup {"fallback"},
                                !.fallback = enumerate_all_cliques(xcheck.graph)]
    /\ UNCHANGED not_cliques

CliquesInit ==
    /\ locus = NewLocus
    /\ called = "none"
    /\ raised = "none"
    /\ fc = NoFrame
    /\ \E G \in SmallGraphs : xcheck = Unchecked(G)
    /\ the_transcript = NoTranscript
    /\ split = NoSplit
    /\ ov = NoCall
    /\ orfs = NoOrfs

CliquesNext ==
    \/ RunExact
    \/ RunFallback

SpecCliques == CliquesInit /\ [][CliquesNext]_vars

(***************************************************************************)
(* Transcript: add_exon and finalize.                                      *)
(***************************************************************************)
\* Coordinates of the sample genome are 1..MaxCoord
MaxCoord == 5

\* A transcript is given at most MaxFeatures exon / CDS / UTR lines
MaxFeatures == 3

Strands == {"+", "-", None}

\* The transcript rows: (start, end, strand) of the transcript line
TranscriptRows ==
    {<<start, end, strand>> :
        start \in 1..2, end \in (MaxCoord - 1)..MaxCoord, strand \in Strands}

\* sum([c[1] - c[0] + 1 for c in intervals])
RECURSIVE IntervalsLength(_)
IntervalsLength(intervals) ==
    IF intervals = <<>> THEN 0
    ELSE (intervals[1][2] - intervals[1][1] + 1) + IntervalsLength(Tail(intervals))

cdna_length(t) == IntervalsLength(t.exons)

combined_cds_length(t) == IntervalsLength(t.combined_cds)

combined_utr_length(t) == IntervalsLength(t.combined_utr)

RemoveAt(s, i) == SubSeq(s, 1, i - 1) \o SubSeq(s, i + 1, Len(s))

\* sorted(intervals, key=operator.itemgetter(0, 1))
RECURSIVE SortedIntervals(_)
SortedIntervals(intervals) ==
    IF intervals = <<>> THEN <<>>
    ELSE LET i == CHOOSE i \in 1..Len(intervals) :
                      \A j \in 1..Len(intervals) : PairLeq(intervals[i], intervals[j])
         IN <<intervals[i]>> \o SortedIntervals(RemoveAt(intervals, i))

\* Python's ordering of the strings "CDS" < "UTR" < "exon"
NameLeq(a, b) == a = b \/ a = "CDS" \/ (a = "UTR" /\ b = "exon")

\* Ordering of segments (name, start, end) under key=operator.itemgetter(1, 2, 0)
SegmentLeq(a, b) ==
    \/ a[2] < b[2]
    \/ a[2] = b[2] /\ a[3] < b[3]
    \/ a[2] = b[2] /\ a[3] = b[3] /\ NameLeq(a[1], b[1])

RECURSIVE SortedSegments(_)
SortedSegments(segments) ==
    IF segments = <<>> THEN <<>>
    ELSE LET i == CHOOSE i \in 1..Len(segments) :
                      \A j \in 1..Len(segments) : SegmentLeq(segments[i], segments[j])
         IN <<segments[i]>> \o SortedSegments(RemoveAt(segments, i))

Tagged(name, intervals) ==
    [i \in 1..Len(intervals) |-> <<name, intervals[i][1], intervals[i][2]>>]

\* [(x[1], x[2]) for x in segments if x[0] == "CDS"]
RECURSIVE CdsOf(_)
CdsOf(segments) ==
    IF segments = <<>> THEN <<>>
    ELSE (IF segments[1][1] = "CDS"
          THEN <<(<<segments[1][2], segments[1][3]>>)>> ELSE <<>>)
         \o CdsOf(Tail(segments))

\* Transcript.selected_cds
selected_cds(t) ==
    IF Len(t.combined_cds) = 0 THEN <<>>
    ELSE CdsOf(t.internal_orfs[t.selected_internal_orf_index + 1])

\* The UTR-inferring loop of finalize over exons[i..]; `utr` is combined_utr
\* so far. The result is the list and whether InvalidCDS was raised.
RECURSIVE InferUtr(_, _, _, _)
InferUtr(exons, i, cds, utr) ==
    IF i > Len(exons) THEN [combined_utr |-> utr, raised |-> "none"]
    ELSE LET exon  == exons[i]
             first == cds[1]
             last  == cds[Len(cds)]
         IN IF \E j \in 1..Len(cds) : cds[j] = exon
            THEN InferUtr(exons, i + 1, cds, utr)
            ELSE IF exon[2] < first[1] \/ exon[1] > last[2]
            THEN InferUtr(exons, i + 1, cds, Append(utr, exon))
            ELSE IF exon[1] < first[1] /\ exon[2] = first[2]
            THEN InferUtr(exons, i + 1, cds, Append(utr, <<exon[1], first[1] - 1>>))
            ELSE IF exon[2] > last[2] /\ exon[1] = last[1]
            THEN InferUtr(exons, i + 1, cds, Append(utr, <<last[2] + 1, exon[2]>>))
            ELSE IF Len(cds) = 1
            THEN InferUtr(exons, i + 1, cds,
                          utr \o << <<exon[1], first[1] - 1>>, <<last[2] + 1, exon[2]>> >>)
            ELSE [combined_utr |-> utr, raised |-> "InvalidCDS"]

\* finalize, lines 909-936: sort the exons and infer the UTRs when only the
\* CDS was given
FinalizeUtr(t) ==
    LET t1 == [t EXCEPT !.exons = SortedIntervals(t.exons)]
    IN IF cdna_length(t1) > combined_utr_length(t1) + combined_cds_length(t1)
          /\ t1.combined_utr = <<>> /\ t1.combined_cds # <<>>
       THEN LET cds == SortedIntervals(t1.combined_cds)
                inf == InferUtr(t1.exons, 1, cds, t1.combined_utr)
                t2  == [t1 EXCEPT !.combined_cds = cds,
                                  !.combined_utr = inf.combined_utr]
            IN IF inf.raised # "none" THEN [t |-> t2, raised |-> inf.raised]
               ELSE IF ~(\/ (combined_cds_length(t2) = combined_utr_length(t2)
                             /\ combined_utr_length(t2) = 0)
                         \/ cdna_length(t2) =
                                combined_utr_length(t2) + combined_cds_length(t2))
               THEN [t |-> t2, raised |-> "InvalidCDS"]
               ELSE [t |-> t2, raised |-> "none"]
       ELSE [t |-> t1, raised |-> "none"]

\* finalize, lines 938-979: introns, splices, codon flags, segments and the
\* single internal ORF
FinalizeStructure(t) ==
    LET t1 == [t EXCEPT !.internal_orfs = <<>>]
    IN IF \E i \in 1..(Len(t1.exons) - 1) : t1.exons[i][2] >= t1.exons[i + 1][1]
       THEN [t |-> t1, raised |-> "InvalidTranscript"]
       ELSE
       LET cds == SortedIntervals(t1.combined_cds)
           utr == SortedIntervals(t1.combined_utr)
           utr_before == Len(utr) > 0 /\ utr[1][1] < cds[1][1]
           utr_after  == Len(utr) > 0 /\ utr[Len(utr)][2] > cds[Len(cds)][2]
           segments == SortedSegments(Tagged("exon", t1.exons)
                                      \o Tagged("CDS", cds) \o Tagged("UTR", utr))
       IN [t |-> [t1 EXCEPT
                !.combined_cds = cds,
                !.combined_utr = utr,
                !.has_start_codon =
                    \/ t1.has_start_codon
                    \/ utr_before /\ t1.strand = "+"
                    \/ utr_after /\ t1.strand = "-",
                !.has_stop_codon =
                    \/ t1.has_stop_codon
                    \/ utr_before /\ t1.strand = "-"
                    \/ utr_after /\ t1.strand = "+",
                !.segments = segments,
                !.internal_orfs = <<segments>>,
                \* set to 0 for a CDS (line 972) and, through the
                \* selected_internal_orf property (line 976), without one
                !.selected_internal_orf_index = 0,
                !.introns = IntronsOf(t1.exons),
                !.splices = SplicesOf(t1.exons),
                !.feature = IF Len(cds) > 0 THEN "mRNA" ELSE t1.feature],
           raised |-> "none"]

\* finalize, lines 981-1001: the transcript's start and end against the outer
\* exons
FinalizeBoundaries(t) ==
    LET n == Len(t.exons)
        mismatch(x) == x.exons[1][1] # x.start \/ x.exons[Len(x.exons)][2] # x.end
    IN IF ~mismatch(t) THEN [t |-> [t EXCEPT !.finalized = TRUE], raised |-> "none"]
       ELSE IF t.exons[1][1] > t.start /\ selected_cds(t) = <<>>
       THEN [t |-> t, raised |-> "InvalidTranscript"]
       ELSE
       LET t1 == IF t.exons[1][1] > t.start /\ selected_cds(t)[1][1] = t.start
                 THEN [t EXCEPT !.exons[1] = <<t.start, t.exons[1][1]>>]
                 ELSE t
       IN IF t1.exons[n][2] < t1.end /\ selected_cds(t1) = <<>>
          THEN [t |-> t1, raised |-> "InvalidTranscript"]
          ELSE
          LET cds == selected_cds(t1)
              t2 == IF t1.exons[n][2] < t1.end /\ cds[Len(cds)][2] = t1.end
                    THEN [t1 EXCEPT !.exons[n] = <<t1.exons[n][1], t1.end>>]
                    ELSE t1
          IN IF mismatch(t2) THEN [t |-> t2, raised |-> "InvalidTranscript"]
             ELSE [t |-> [t2 EXCEPT !.finalized = TRUE], raised |-> "none"]

\* Transcript.finalize: the transcript it leaves and the exception it raises
Finalized(t) ==
    IF t.finalized THEN [t |-> t, raised |-> "none"]
    ELSE IF Len(t.exons) = 0 THEN [t |-> t, raised |-> "InvalidTranscript"]
    ELSE IF Len(t.exons) > 1 /\ t.strand = None
    THEN [t |-> t, raised |-> "InvalidTranscript"]
    ELSE IF t.combined_utr # <<>> /\ t.combined_cds = <<>>
    THEN [t |-> t, raised |-> "InvalidTranscript"]
    ELSE LET a == FinalizeUtr(t)
         IN IF a.raised # "none" THEN a
            ELSE LET b == FinalizeStructure(a.t)
                 IN IF b.raised # "none" THEN b
                    ELSE FinalizeBoundaries(b.t)

NumFeatures(t) == Len(t.exons) + Len(t.combined_cds) + Len(t.combined_utr)

\* add_exon with an exon, CDS or UTR line whose parent is this transcript
add_exon(feature, gff_start, gff_end) ==
    /\ raised = "none"
    /\ ~the_transcript.finalized
    /\ NumFeatures(the_transcript) < MaxFeatures
    /\ LET segment == <<Min2(gff_start, gff_end), Max2(gff_start, gff_end)>>
       IN the_transcript' =
           CASE feature = "CDS" ->
                  [the_transcript EXCEPT !.combined_cds = Append(@, segment)]
             [] feature = "UTR" ->
                  [the_transcript EXCEPT !.combined_utr = Append(@, segment)]
             [] feature = "exon" ->
                  [the_transcript EXCEPT !.exons = Append(@, segment)]
    /\ called' = "add_exon"
    /\ raised' = "none"
    /\ UNCHANGED not_transcript

\* add_exon on a finalized transcript
add_exon_finalized ==
    /\ raised = "none"
    /\ the_transcript.finalized
    /\ called' = "add_exon"
    /\ raised' = "ModificationError"
    /\ UNCHANGED <<the_transcript, not_transcript>>

finalize ==
    /\ raised = "none"
    /\ the_transcript' = Finalized(the_transcript).t
    /\ called' = "finalize"
    /\ raised' = Finalized(the_transcript).raised
    /\ UNCHANGED not_transcript

TranscriptInit ==
    /\ locus = NewLocus
    /\ called = "none"
    /\ raised = "none"
    /\ fc = NoFrame
    /\ xcheck = NoCheck
    /\ \E row \in TranscriptRows : the_transcript = NewTranscript(row[1], row[2], row[3])
    /\ split = NoSplit
    /\ ov = NoCall
    /\ orfs = NoOrfs

TranscriptNext ==
    \/ \E feature \in {"exon", "CDS", "UTR"}, a \in 1..MaxCoord, b \in 1..MaxCoord :
           add_exon(feature, a, b)
    \/ add_exon_finalized
    \/ finalize

SpecTranscript == TranscriptInit /\ [][TranscriptNext]_vars

(***************************************************************************)
(* Transcript.split_by_cds: the CDS boundaries and their merging under the *)
(* BLAST check.                                                            *)
(***************************************************************************)
\* ORF k of the sample transcript has the cDNA window (10k-9, 10k); the
\* transcript carries ORFs among the windows 1..NumWindows
NumWindows == 2

\* A BLAST hit has at most MaxHsps HSPs
MaxHsps == 2

Targets == <<"A", "B">>

SampleWindow(k) == <<10 * k - 9, 10 * k>>

\* The HSPs a hit can have: one over each window and one straddling windows
\* 1 and 2, each with an e-value under or over the threshold; their bit
\* scores are distinct
HspSample ==
    LET spans == [k \in 1..NumWindows |-> SampleWindow(k)] \o << <<6, 15>> >>
    IN [i \in 1..(2 * Len(spans)) |->
           [query_hsp_start |-> spans[(i + 1) \div 2][1],
            query_hsp_end |-> spans[(i + 1) \div 2][2],
            hsp_evalue |-> IF i % 2 = 1 THEN 0 ELSE 2,
            hsp_bits |-> i]]

\* The list of the elements of `sample` at the positions `chosen`
RECURSIVE Picked(_, _)
Picked(sample, chosen) ==
    IF chosen = {} THEN <<>>
    ELSE LET i == SetMin(chosen)
         IN <<sample[i]>> \o Picked(sample, chosen \ {i})

HspLists ==
    {Picked(HspSample, chosen) :
        chosen \in {c \in SUBSET (1..Len(HspSample)) : Cardinality(c) <= MaxHsps}}

\* self.blast_hits: at most one hit per target, each with its HSPs
BlastHits ==
    {Picked([i \in 1..Len(Targets) |-> [target |-> Targets[i], hsps |-> hsps[i]]],
            {i \in 1..Len(Targets) : hsps[i] # <<>>}) :
        hsps \in [1..Len(Targets) -> HspLists]}

\* self.loaded_bed12: ORFs with distinct windows, in any order
RECURSIVE Orderings(_)
Orderings(S) ==
    IF S = {} THEN {<<>>}
    ELSE UNION {{<<x>> \o rest : rest \in Orderings(S \ {x})} : x \in S}

LoadedBed12 ==
    UNION {Orderings({[thickStart |-> SampleWindow(k)[1],
                       thickEnd |-> SampleWindow(k)[2]] : k \in chosen}) :
               chosen \in (SUBSET (1..NumWindows)) \ {{}}}

\* self.json_dict; minimal_hsp_overlap is in percent
JsonDicts ==
    {[chimera_split |->
        [blast_check |-> blast_check,
         blast_params |-> [leniency |-> leniency,
                           minimal_hsp_overlap |-> minimal_hsp_overlap,
                           hsp_evalue |-> 1]]] :
        blast_check \in BOOLEAN,
        leniency \in {"STRINGENT", "LENIENT", "PERMISSIVE"},
        minimal_hsp_overlap \in {0, 80}}

\* The keys of an OrderedDict filled from `keys`: first occurrences, in order
RECURSIVE OrderedKeys(_, _)
OrderedKeys(keys, seen) ==
    IF keys = <<>> THEN seen
    ELSE OrderedKeys(Tail(keys),
                     IF keys[1] \in Range(seen) THEN seen ELSE Append(seen, keys[1]))

\* lines 520-522: the (thickStart, thickEnd) keys of the sorted ORFs
CdsBoundariesOf(loaded_bed12) ==
    OrderedKeys(SortedIntervals([i \in 1..Len(loaded_bed12) |->
                    <<loaded_bed12[i].thickStart, loaded_bed12[i].thickEnd>>]), <<>>)

\* lines 526-540: the targets whose HSPs support each CDS boundary
CdsHitDictOf(cds_boundaries, blast_hits, blast_params) ==
    [cds_run \in Range(cds_boundaries) |->
        {hit.target : hit \in
            {h \in Range(blast_hits) :
                \E hsp \in Range(h.hsps) :
                    /\ hsp.hsp_evalue <= blast_params.hsp_evalue
                    /\ 100 * overlap(cds_run,
                                     <<hsp.query_hsp_start, hsp.query_hsp_end>>, 0)
                         >= blast_params.minimal_hsp_overlap
                                * (cds_run[2] + 1 - cds_run[1])}}]

\* The C10 mutant: every leniency merges unless both boundaries have hits
\* and share none
MergeUnlessDisjointHits(leniency, cds_hits, old_hits) ==
    ~(cds_hits # {} /\ old_hits # {} /\ cds_hits \cap old_hits = {})

\* The C11 mutant: every leniency merges as soon as one boundary has a hit
MergeWhenEitherHasHits(leniency, cds_hits, old_hits) ==
    cds_hits # {} \/ old_hits # {}

\* The C9 mutant: every leniency merges only on a shared target
MergeOnSharedTarget(leniency, cds_hits, old_hits) ==
    cds_hits \cap old_hits # {}

\* lines 550-568: TRUE when cds_boundary joins the group of old_boundary
MergeWithPrevious(leniency, cds_hits, old_hits) ==
    IF cds_hits = {} /\ old_hits = {} THEN leniency = "STRINGENT"
    ELSE IF cds_hits = {} \/ old_hits = {} THEN leniency # "PERMISSIVE"
    ELSE cds_hits \cap old_hits # {}

\* lines 570-580: the boundary that stands for each group
FinalBoundariesOf(new_boundaries) ==
    OrderedKeys([i \in 1..Len(new_boundaries) |->
                    IF Len(new_boundaries[i]) = 1 THEN new_boundaries[i][1]
                    ELSE <<new_boundaries[i][1][1],
                           new_boundaries[i][Len(new_boundaries[i])][2]>>], <<>>)

\* lines 509-524, on a transcript that is already finalized: the CDS
\* boundaries of the loaded ORFs
SplitCdsBoundaries ==
    /\ split.pc = "cds_boundaries"
    /\ split' =
         IF Len(split.loaded_bed12) < 2
         THEN [split EXCEPT !.pc = "done", !.new_transcripts = "self"]
         ELSE [split EXCEPT
                 !.cds_boundaries = CdsBoundariesOf(split.loaded_bed12),
                 !.pc = IF split.json_dict.chimera_split.blast_check
                        THEN "cds_hit_dict" ELSE "new_transcripts"]
    /\ UNCHANGED not_split

\* lines 526-542
SplitCdsHitDict ==
    /\ split.pc = "cds_hit_dict"
    /\ split' = [split EXCEPT
          !.cds_hit_dict = CdsHitDictOf(split.cds_boundaries, split.blast_hits,
                                        split.json_dict.chimera_split.blast_params),
          !.new_boundaries = <<>>,
          !.position = 1,
          !.pc = "new_boundaries"]
    /\ UNCHANGED not_split

\* lines 543-568: one iteration of the loop over cds_boundaries
SplitNewBoundary ==
    /\ split.pc = "new_boundaries"
    /\ split.position <= Len(split.cds_boundaries)
    /\ LET cds_boundary == split.cds_boundaries[split.position]
           last == Len(split.new_boundaries)
       IN split' = [split EXCEPT
            !.position = @ + 1,
            !.new_boundaries =
                IF split.new_boundaries = <<>> THEN << <<cds_boundary>> >>
                ELSE LET old_boundary == @[last][Len(@[last])]
                     IN IF MergeWithPrevious(
                              split.json_dict.chimera_split.blast_params.leniency,
                              split.cds_hit_dict[cds_boundary],
                              split.cds_hit_dict[old_boundary])
                        THEN [@ EXCEPT ![last] = Append(@, cds_boundary)]
                        ELSE Append(@, <<cds_boundary>>)]
    /\ UNCHANGED not_split

\* lines 570-582
SplitFinalBoundaries ==
    /\ split.pc = "new_boundaries"
    /\ split.position > Len(split.cds_boundaries)
    /\ split' = [split EXCEPT
          !.cds_boundaries = FinalBoundariesOf(split.new_boundaries),
          !.pc = "new_transcripts"]
    /\ UNCHANGED not_split

\* lines 584-586: one boundary left gives back the transcript itself,
\* several give one child per boundary
SplitNewTranscripts ==
    /\ split.pc = "new_transcripts"
    /\ split' = [split EXCEPT
          !.new_transcripts =
              IF Len(split.cds_boundaries) = 1 THEN "self" ELSE "children",
          !.pc = "done"]
    /\ UNCHANGED not_split

SplitInit ==
    /\ locus = NewLocus
    /\ called = "none"
    /\ raised = "none"
    /\ fc = NoFrame
    /\ xcheck = NoCheck
    /\ the_transcript = NoTranscript
    /\ \E json_dict \in JsonDicts, loaded_bed12 \in LoadedBed12,
          blast_hits \in BlastHits :
          split = SplitFrame("cds_boundaries", json_dict, loaded_bed12, blast_hits)
    /\ ov = NoCall
    /\ orfs = NoOrfs

SplitNext ==
    \/ SplitCdsBoundaries
    \/ SplitCdsHitDict
    \/ SplitNewBoundary
    \/ SplitFinalBoundaries
    \/ SplitNewTranscripts

SpecSplit == SplitInit /\ [][SplitNext]_vars

(***************************************************************************)
(* Claims about the locus.                                                 *)
(***************************************************************************)
Owned == {locus.transcripts[i] : i \in DOMAIN locus.transcripts}

\* C1: while the locus owns at least one transcript, locus.start is the
\* minimum start and locus.end the maximum end of the owned transcripts,
\* whatever sequence of add and remove calls led there.
C1_BoundsAreMinMax ==
    Owned # {} =>
        /\ locus.start = SetMin({t.start : t \in Owned})
        /\ locus.end = SetMax({t.end : t \in Owned})

\* C1 witness: a removal has just left a locus whose surviving transcripts
\* start after position 1 and the bounds are those of the survivors.
C1_Witness ==
    /\ called = "remove_transcript_from_locus" /\ raised = "none"
    /\ Owned # {}
    /\ locus.start = SetMin({t.start : t \in Owned})
    /\ locus.start > 1

\* C2 (as claimed): every derived set of the locus is the union of the
\* corresponding sets of the transcripts it still owns, also after the last
\* transcript has been removed.
C2_DerivedSetsAreUnions ==
    /\ locus.exons = UNION {Range(t.exons) : t \in Owned}
    /\ locus.introns = UNION {t.introns : t \in Owned}
    /\ locus.splices = UNION {t.splices : t \in Owned}
    /\ locus.combined_cds_introns = UNION {t.combined_cds_introns : t \in Owned}
    /\ locus.selected_cds_introns = UNION {t.selected_cds_introns : t \in Owned}


(***************************************************************************)
(* Claims about cliques and communities.                                   *)
(***************************************************************************)
\* C3 (as claimed): the communities find_communities returns are pairwise
\* disjoint and their union is the node set of the graph, whichever
\* enumerator the node count selected.
C3_CommunitiesPartitionNodes ==
    fc.pc = "done" =>
        /\ \A a \in fc.communities, b \in fc.communities :
               a # b => a \cap b = {}
        /\ UNION fc.communities = fc.graph.nodes

\* C4 (as claimed): for every graph the communities of the clique-percolation
\* path are the connected components of the graph, i.e. what the direct
\* implementation clique_methods.find_communities returns.
C4_CommunitiesAreComponents ==
    fc.pc = "done" => fc.communities = connected_components(fc.graph)

IsClique(G, c) ==
    \A u \in c, v \in c : u # v => {u, v} \in G.edges

IsMaximalClique(G, c) ==
    /\ c # {} /\ c \subseteq G.nodes /\ IsClique(G, c)
    /\ \A v \in G.nodes \ c : ~IsClique(G, c \cup {v})

\* C5 (as claimed): on the same graph the exact enumerator and the fallback
\* enumerator return the same set of cliques, all of them maximal.
C5_EnumeratorsAgree ==
    xcheck.ran = {"exact", "fallback"} =>
        /\ xcheck.exact = xcheck.fallback
        /\ \A c \in xcheck.fallback : IsMaximalClique(xcheck.graph, c)
        /\ \A c \in xcheck.exact : IsMaximalClique(xcheck.graph, c)

(***************************************************************************)
(* Claims about Transcript.finalize.                                       *)
(***************************************************************************)
\* C6 (as claimed): a finalized transcript with at least one CDS interval has
\* cdna_length = combined_cds_length + combined_utr_length.
C6_CdnaIsCdsPlusUtr ==
    (the_transcript.finalized /\ Len(the_transcript.combined_cds) >= 1) =>
        cdna_length(the_transcript) =
            combined_cds_length(the_transcript) + combined_utr_length(the_transcript)

\* C7 (as claimed): after a successful finalize the exons are sorted by
\* (start, end), consecutive exons are separated by a strictly positive gap
\* (exonB.start - exonA.end - 1 > 0), and every intron has start <= end.
C7_ExonsSortedWithGaps ==
    the_transcript.finalized =>
        /\ \A i \in 1..(Len(the_transcript.exons) - 1) :
              /\ PairLeq(the_transcript.exons[i], the_transcript.exons[i + 1])
              /\ the_transcript.exons[i + 1][1] - the_transcript.exons[i][2] - 1 > 0
        /\ \A intron \in the_transcript.introns : intron[1] <= intron[2]

\* C8 (as claimed): a finalize that does not fail ends with exons[0].start =
\* start and exons[-1].end = end, and compared with the sorted exons it was
\* given it has only moved the start of the first exon down to start and the
\* end of the last exon up to end: every other coordinate is as it was.
C8_RepairOnlyExtendsOuterExons ==
    [][(~the_transcript.finalized /\ the_transcript'.finalized) =>
          LET old == SortedIntervals(the_transcript.exons)
              new == the_transcript'.exons
              n   == Len(old)
          IN /\ Len(new) = n
             /\ new[1][1] = the_transcript'.start
             /\ new[n][2] = the_transcript'.end
             /\ new[1][1] <= old[1][1]
             /\ new[n][2] >= old[n][2]
             /\ \A i \in 1..n : /\ i > 1 => new[i][1] = old[i][1]
                                /\ i < n => new[i][2] = old[i][2]]_vars

(***************************************************************************)
(* Claims about the merging of CDS boundaries in split_by_cds.             *)
(***************************************************************************)
\* The CDS boundaries of the call, before any merging
OriginalBoundaries == CdsBoundariesOf(split.loaded_bed12)

\* Two boundaries were put in one group of new_boundaries
SameGroup(a, b) ==
    \E i \in 1..Len(split.new_boundaries) :
        {a, b} \subseteq Range(split.new_boundaries[i])

\* The merging loop has run with the BLAST check on, under `leniency`
MergedUnder(leniency) ==
    /\ split.pc \in {"new_transcripts", "done"}
    /\ split.json_dict.chimera_split.blast_check
    /\ split.json_dict.chimera_split.blast_params.leniency = leniency

HitsOf(boundary) == split.cds_hit_dict[boundary]

\* C9 (as claimed): under STRINGENT with the BLAST check on, two adjacent CDS
\* boundaries are merged only when both have hits and share a target, and
\* are split in every other case.
C9_StringentMergesOnlyOnSharedTarget ==
    MergedUnder("STRINGENT") =>
        \A i \in 1..(Len(OriginalBoundaries) - 1) :
            LET a == OriginalBoundaries[i]
                b == OriginalBoundaries[i + 1]
            IN SameGroup(a, b) <=> (HitsOf(a) \cap HitsOf(b) # {})

\* C9 (amended): under STRINGENT with the BLAST check on, two adjacent CDS
\* boundaries are split exactly when both have hits and share no target;
\* they are merged when either or both lack hits or when a target is shared.
C9_StringentSplitsOnlyOnDisjointHits ==
    MergedUnder("STRINGENT") =>
        \A i \in 1..(Len(OriginalBoundaries) - 1) :
            LET a == OriginalBoundaries[i]
                b == OriginalBoundaries[i + 1]
            IN ~SameGroup(a, b) <=>
                   (HitsOf(a) # {} /\ HitsOf(b) # {} /\ HitsOf(a) \cap HitsOf(b) = {})

\* C9 witness: a STRINGENT call has merged two adjacent boundaries of which
\* exactly one has a hit, and returned the transcript itself.
C9_Witness ==
    /\ MergedUnder("STRINGENT")
    /\ split.pc = "done" /\ split.new_transcripts = "self"
    /\ \E i \in 1..(Len(OriginalBoundaries) - 1) :
          LET a == OriginalBoundaries[i]
              b == OriginalBoundaries[i + 1]
          IN /\ SameGroup(a, b)
             /\ (HitsOf(a) = {}) # (HitsOf(b) = {})

\* C10: under PERMISSIVE with the BLAST check on, two adjacent CDS boundaries
\* are merged exactly when both have hits and share a target; they are split
\* whenever either lacks hits or both have hits and share none.
C10_PermissiveSplitsUnlessSharedTarget ==
    MergedUnder("PERMISSIVE") =>
        \A i \in 1..(Len(OriginalBoundaries) - 1) :
            LET a == OriginalBoundaries[i]
                b == OriginalBoundaries[i + 1]
            IN /\ SameGroup(a, b) <=>
                    (HitsOf(a) # {} /\ HitsOf(b) # {} /\ HitsOf(a) \cap HitsOf(b) # {})
               /\ ~SameGroup(a, b) <=>
                    \/ HitsOf(a) = {} \/ HitsOf(b) = {}
                    \/ HitsOf(a) \cap HitsOf(b) = {}

\* C10 witness: a PERMISSIVE call has split two adjacent boundaries of which
\* exactly one has a hit, and is to yield one child per boundary.
C10_Witness ==
    /\ MergedUnder("PERMISSIVE")
    /\ split.pc = "done" /\ split.new_transcripts = "children"
    /\ \E i \in 1..(Len(OriginalBoundaries) - 1) :
          LET a == OriginalBoundaries[i]
              b == OriginalBoundaries[i + 1]
          IN /\ ~SameGroup(a, b)
             /\ (HitsOf(a) = {}) # (HitsOf(b) = {})

\* C11: under LENIENT with the BLAST check on, two adjacent CDS boundaries
\* are split exactly when both lack hits or both have hits and share no
\* target; they are merged when exactly one has hits or a target is shared.
C11_LenientSplitsOnBothOrNeither ==
    MergedUnder("LENIENT") =>
        \A i \in 1..(Len(OriginalBoundaries) - 1) :
            LET a == OriginalBoundaries[i]
                b == OriginalBoundaries[i + 1]
                split_case == \/ HitsOf(a) = {} /\ HitsOf(b) = {}
                              \/ /\ HitsOf(a) # {} /\ HitsOf(b) # {}
                                 /\ HitsOf(a) \cap HitsOf(b) = {}
                merge_case == \/ (HitsOf(a) = {}) # (HitsOf(b) = {})
                              \/ HitsOf(a) \cap HitsOf(b) # {}
            IN /\ ~SameGroup(a, b) <=> split_case
               /\ SameGroup(a, b) <=> merge_case

\* C11 witness: a LENIENT call has split two adjacent boundaries that both
\* have hits, none of them shared.
C11_Witness ==
    /\ MergedUnder("LENIENT")
    /\ split.pc = "done" /\ split.new_transcripts = "children"
    /\ \E i \in 1..(Len(OriginalBoundaries) - 1) :
          LET a == OriginalBoundaries[i]
              b == OriginalBoundaries[i + 1]
          IN /\ ~SameGroup(a, b)
             /\ HitsOf(a) # {} /\ HitsOf(b) # {}
             /\ HitsOf(a) \cap HitsOf(b) = {}

(***************************************************************************)
(* Interval overlap: Abstractlocus.overlap, clique_methods.overlap and     *)
(* Abstractlocus.in_locus on two 1-based inclusive spans.                  *)
(***************************************************************************)
\* Positions of the spans are 1..MaxPosition
MaxPosition == 6

\* The 1-based inclusive intervals (start <= end)
Intervals == {<<a, b>> : a \in 1..MaxPosition, b \in 1..MaxPosition} \
             {<<a, b>> \in (1..MaxPosition) \X (1..MaxPosition) : a > b}

\* clique_methods.overlap
clique_methods_overlap(first_interval, second_interval, flank) ==
    LET f == <<Min2(first_interval[1], first_interval[2]),
               Max2(first_interval[1], first_interval[2])>>
        s == <<Min2(second_interval[1], second_interval[2]),
               Max2(second_interval[1], second_interval[2])>>
        left_boundary == Max2(f[1] - flank, s[1] - flank)
        right_boundary == Min2(f[2] + flank, s[2] + flank)
    IN right_boundary - left_boundary

\* The locus in_locus is asked about: on chr1, stranded, on the plus strand,
\* spanning the first interval
SpanLocus(interval) ==
    [chrom |-> "chr1", stranded |-> TRUE, strand |-> "+",
     start |-> interval[1], end |-> interval[2]]

\* The transcript in_locus is asked about
SpanTranscript(interval, chrom, strand) ==
    [chrom |-> chrom, strand |-> strand,
     start |-> interval[1], end |-> interval[2]]

\* Abstractlocus.overlap(first_interval, second_interval), flank = 0
CallOverlap ==
    /\ ov.pc = "call"
    /\ ov' = [ov EXCEPT !.pc = "overlap",
                        !.result = overlap(ov.first_interval,
                                           ov.second_interval, 0)]
    /\ UNCHANGED not_overlap

\* clique_methods.overlap(first_interval, second_interval), flank = 0
CallCliqueMethodsOverlap ==
    /\ ov.pc = "call"
    /\ ov' = [ov EXCEPT !.pc = "clique_methods_overlap",
                        !.result = clique_methods_overlap(
                                       ov.first_interval,
                                       ov.second_interval, 0)]
    /\ UNCHANGED not_overlap

\* Abstractlocus.in_locus(locus_instance, transcript), flank = 0
CallInLocus ==
    /\ ov.pc = "call"
    /\ ov' = [ov EXCEPT !.pc = "in_locus",
                        !.accepted = in_locus(
                            SpanLocus(ov.first_interval),
                            SpanTranscript(ov.second_interval,
                                           ov.chrom, ov.strand), 0)]
    /\ UNCHANGED not_overlap

OverlapInit ==
    /\ locus = NewLocus
    /\ called = "none"
    /\ raised = "none"
    /\ fc = NoFrame
    /\ xcheck = NoCheck
    /\ the_transcript = NoTranscript
    /\ split = NoSplit
    /\ \E a \in Intervals, b \in Intervals, p \in Places :
          ov = OverlapCall("call", a, b, p[1], p[2])
    /\ orfs = NoOrfs

OverlapNext ==
    \/ CallOverlap
    \/ CallCliqueMethodsOverlap
    \/ CallInLocus

SpecOverlap == OverlapInit /\ [][OverlapNext]_vars


(***************************************************************************)
(* Claims about the order of exploration in reid_daid_hurley.              *)
(***************************************************************************)
\* The cliques linked to one of `S` by a chain of cliques in which
\* consecutive cliques share at least k - 1 nodes
RECURSIVE PercolatesFrom(_, _, _)
PercolatesFrom(cliques, S, k) ==
    LET next == S \cup {c \in cliques :
                           \E d \in S : Cardinality(c \cap d) >= k - 1}
    IN IF next = S THEN S ELSE PercolatesFrom(cliques, next, k)

\* The k-clique communities of a clique set: what no exploration order can
\* change
PercolationCommunities(cliques, k) ==
    {UNION PercolatesFrom(cliques, {c}, k) : c \in cliques}

\* C18: for a fixed graph and clique set (k = 2), whichever clique the for
\* loop takes next and whichever clique frontier.pop() returns, the
\* communities reid_daid_hurley returns are the k-clique communities of the
\* clique set: the order of processing never changes the result.
C18_CommunitiesOrderIndependent ==
    fc.pc = "done" =>
        CommunitiesOf(fc.cliques_to_components_dict) =
            PercolationCommunities(KeptCliques(fc.cliques, PercolationK),
                                   PercolationK)

\* C18 witness: a call has returned a community that was assembled from
\* several cliques, which can be explored in more than one order.
C18_Witness ==
    /\ fc.pc = "done"
    /\ \E n \in {fc.cliques_to_components_dict[c] :
                    c \in DOMAIN fc.cliques_to_components_dict} :
          Cardinality({c \in DOMAIN fc.cliques_to_components_dict :
                          fc.cliques_to_components_dict[c] = n}) >= 3

(***************************************************************************)
(* Claims about interval overlap.                                          *)
(***************************************************************************)
\* The two spans of the call have at least one position in common
SharePosition ==
    \E x \in ov.first_interval[1]..ov.first_interval[2] :
        x \in ov.second_interval[1]..ov.second_interval[2]

\* C19: with flank = 0, overlap(a, b) is positive exactly when the 1-based
\* inclusive intervals a and b share at least one position (zero or negative
\* exactly when they do not), and in_locus accepts a transcript on the
\* chromosome and strand of the locus exactly when the two spans share at
\* least one position.
C19_OverlapPositiveIffSharedPosition ==
    /\ ov.pc \in {"overlap", "clique_methods_overlap"} =>
           /\ (ov.result > 0) <=> SharePosition
           /\ (ov.result <= 0) <=> ~SharePosition
    /\ (ov.pc = "in_locus" /\ ov.chrom = "chr1" /\ ov.strand = "+") =>
           (ov.accepted <=> SharePosition)

(***************************************************************************)
(* Claims about the chromosome and strand of the owned transcripts.        *)
(***************************************************************************)
\* C20: after any sequence of add_transcript_to_locus and
\* remove_transcript_from_locus calls, every transcript the locus owns is on
\* the chromosome of the locus and, when the locus is stranded, on its
\* strand.
C20_OwnedShareChromAndStrand ==
    \A t \in Owned :
        /\ t.chrom = locus.chrom
        /\ locus.stranded => t.strand = locus.strand


(***************************************************************************)
(* Transcript.load_orfs: candidate ORFs (BED12 records in cDNA             *)
(* coordinates) are clustered by overlap, one is kept per community, and   *)
(* the kept ones are projected on the exons.                               *)
(***************************************************************************)
\* A transcript is offered at most MaxOrfs candidate ORFs
MaxOrfs == 2

\* The exon structures of the sample transcripts: one exon, or two exons
\* of the same cDNA length
SampleExons == {<< <<11, 16>> >>, << <<11, 13>>, <<21, 23>> >>}

\* The transcripts load_orfs is called on, as built from their exon lines
OrfTranscripts ==
    {t \in {[NewTranscript(exons[1][1], exons[Len(exons)][2], strand)
                EXCEPT !.exons = exons] :
               exons \in SampleExons, strand \in Strands} :
        Len(t.exons) = 1 \/ t.strand # None}

\* A candidate ORF: a BED12 record over a whole cDNA of `length` bases
\* with the CDS window (thickStart, thickEnd)
CandidateOrf(name, thickStart, thickEnd, strand, length) ==
    [name |-> name, start |-> 1, end |-> length,
     thickStart |-> thickStart, thickEnd |-> thickEnd, strand |-> strand,
     invalid |-> FALSE, has_start_codon |-> TRUE, has_stop_codon |-> TRUE]

\* BED12.cds_len
cds_len(orf) == orf.thickEnd - orf.thickStart + 1

\* BED12.__len__
OrfLen(orf) == orf.end - orf.start + 1

\* The lists of candidate ORFs of a cDNA of `length` bases: ORF i is named
\* i, its window has at least two bases
CandidateOrfLists(length) ==
    LET sample == {o \in {CandidateOrf(0, a, b, strand, length) :
                             a \in 1..length, b \in 1..length,
                             strand \in {"+", "-"}} :
                      o.thickStart < o.thickEnd}
    IN UNION {{[i \in 1..n |-> [f[i] EXCEPT !.name = i]] :
                  f \in {g \in [1..n -> sample] :
                            \A i \in 1..(n - 1) :
                                PairLeq(<<g[i].thickStart, g[i].thickEnd>>,
                                        <<g[i + 1].thickStart, g[i + 1].thickEnd>>)}} :
              n \in 1..MaxOrfs}

\* The element of a one-element set. Only({F(x) : x \in {e}}) is F(e) with
\* e computed once.
Only(S) == CHOOSE x \in S : TRUE

\* Transcript.overlap
TranscriptOverlap(first, second) ==
    LET lend == Max2(first[1], second[1])
        rend == Min2(first[2], second[2])
    IN rend - lend

\* Transcript.is_overlapping_cds
is_overlapping_cds(first, second) ==
    ~(first = second
      \/ TranscriptOverlap(<<first.thickStart, first.thickEnd>>,
                           <<second.thickStart, second.thickEnd>>) <= 0)

\* Transcript.is_intersecting
is_intersecting(first, second) ==
    ~(first = second \/ TranscriptOverlap(first, second) < 0)

\* Abstractlocus.find_communities(graph)[1]: the singleton cliques and the
\* communities reid_daid_hurley returns
AbstractlocusCommunities(G) ==
    {c \in ChooseCliques(G) : Cardinality(c) = 1}
        \cup PercolationCommunities(KeptCliques(ChooseCliques(G), PercolationK),
                                    PercolationK)

\* Transcript.find_overlapping_cds: the communities of ORF names
find_overlapping_cds(candidates) ==
    AbstractlocusCommunities(
        [nodes |-> DOMAIN candidates,
         edges |-> {e \in {{i, j} : i \in DOMAIN candidates, j \in DOMAIN candidates} :
                       /\ Cardinality(e) = 2
                       /\ \A i \in e, j \in e :
                             i # j => is_overlapping_cds(candidates[i], candidates[j])}])

\* lines 1231-1234: the lists new_orfs can be. The communities are a set of
\* frozensets, iterated in an order the program does not fix, and sorted()
\* keeps any of the longest members of a community first.
NewOrfsChoices(candidates) ==
    LET communities == find_overlapping_cds(candidates)
        longest(c) == {i \in c : \A j \in c : cds_len(candidates[j])
                                                 <= cds_len(candidates[i])}
    IN UNION {{[k \in 1..Len(order) |-> candidates[pick[k]]] :
                  pick \in {p \in [1..Len(order) -> DOMAIN candidates] :
                               \A k \in 1..Len(order) : p[k] \in longest(order[k])}} :
              order \in Orderings(communities)}

\* filter(predicate, list), for the predicates of load_orfs
RECURSIVE FilterOrfs(_, _, _)
FilterOrfs(orf_list, kind, value) ==
    IF orf_list = <<>> THEN <<>>
    ELSE (IF \/ kind = "secondary" /\ cds_len(orf_list[1]) > value
                                   /\ ~orf_list[1].invalid
             \/ kind = "strand" /\ orf_list[1].strand = value
          THEN <<orf_list[1]>> ELSE <<>>)
         \o FilterOrfs(Tail(orf_list), kind, value)

\* lines 1236-1243: the first representative, then the others that pass
\* the minimal secondary length
SecondaryFilter(new_orfs, minimal_secondary_orf_length) ==
    IF new_orfs = <<>> THEN <<>>
    ELSE <<new_orfs[1]>>
           \o FilterOrfs(Tail(new_orfs), "secondary", minimal_secondary_orf_length)

\* The C16 mutant: the ORFs are loaded in the order they are given
Unsorted(orf_list) == orf_list

\* sorted(orf_list, key=cds_len, reverse=True): longest first, equal
\* lengths in their order in the list
RECURSIVE SortedByCdsLen(_)
SortedByCdsLen(orf_list) ==
    IF orf_list = <<>> THEN <<>>
    ELSE LET i == CHOOSE i \in 1..Len(orf_list) :
                      /\ \A j \in 1..Len(orf_list) :
                            cds_len(orf_list[j]) <= cds_len(orf_list[i])
                      /\ \A j \in 1..(i - 1) :
                            cds_len(orf_list[j]) < cds_len(orf_list[i])
         IN <<orf_list[i]>> \o SortedByCdsLen(RemoveAt(orf_list, i))

\* sorted(segments, key=operator.itemgetter(1, 2)): equal keys in their
\* order in the list
RECURSIVE SortedByStartEnd(_)
SortedByStartEnd(segments) ==
    IF segments = <<>> THEN <<>>
    ELSE LET key(x) == <<x[2], x[3]>>
             i == CHOOSE i \in 1..Len(segments) :
                      /\ \A j \in 1..Len(segments) :
                            PairLeq(key(segments[i]), key(segments[j]))
                      /\ \A j \in 1..(i - 1) :
                            key(segments[j]) # key(segments[i])
         IN <<segments[i]>> \o SortedByStartEnd(RemoveAt(segments, i))

\* The C23 mutant: the offsets are counted from the left end of the exon on
\* both strands
ProjectExonForward(exon, current_start, current_end, orf, strand) ==
    << <<"exon", exon[1], exon[2]>> >> \o
    (IF current_end < orf.thickStart \/ current_start > orf.thickEnd
     THEN << <<"UTR", exon[1], exon[2]>> >>
     ELSE LET c_start == exon[1] + Max2(0, orf.thickStart - current_start)
              c_end == exon[2] - Max2(0, current_end - orf.thickEnd)
          IN (IF c_start > exon[1]
              THEN << <<"UTR", exon[1], c_start - 1>> >> ELSE <<>>)
             \o (IF c_start <= c_end
                 THEN << <<"CDS", c_start, c_end>> >> ELSE <<>>)
             \o (IF c_end < exon[2]
                 THEN << <<"UTR", c_end + 1, exon[2]>> >> ELSE <<>>))

\* lines 1284-1318, the body of the loop for one exon that covers the cDNA
\* positions current_start..current_end
ProjectExon(exon, current_start, current_end, orf, strand) ==
    << <<"exon", exon[1], exon[2]>> >> \o
    (IF current_end < orf.thickStart \/ current_start > orf.thickEnd
     THEN << <<"UTR", exon[1], exon[2]>> >>
     ELSE IF strand = "+"
     THEN LET c_start == exon[1] + Max2(0, orf.thickStart - current_start)
              c_end == exon[2] - Max2(0, current_end - orf.thickEnd)
          IN (IF c_start > exon[1]
              THEN << <<"UTR", exon[1], c_start - 1>> >> ELSE <<>>)
             \o (IF c_start <= c_end
                 THEN << <<"CDS", c_start, c_end>> >> ELSE <<>>)
             \o (IF c_end < exon[2]
                 THEN << <<"UTR", c_end + 1, exon[2]>> >> ELSE <<>>)
     ELSE LET c_end == exon[2] - Max2(0, orf.thickStart - current_start)
              c_start == exon[1] + Max2(0, current_end - orf.thickEnd)
          IN (IF c_end < exon[2]
              THEN << <<"UTR", c_end + 1, exon[2]>> >> ELSE <<>>)
             \o << <<"CDS", c_start, c_end>> >>
             \o (IF c_start > exon[1]
                 THEN << <<"UTR", exon[1], c_start - 1>> >> ELSE <<>>))

\* The loop over the exons in transcript order, `done` cDNA bases before
RECURSIVE ProjectExons(_, _, _, _)
ProjectExons(exon_list, done, orf, strand) ==
    IF exon_list = <<>> THEN <<>>
    ELSE LET exon == exon_list[1]
             current_end == done + exon[2] - exon[1] + 1
         IN ProjectExon(exon, done + 1, current_end, orf, strand)
              \o ProjectExons(Tail(exon_list), current_end, orf, strand)

Reversed(s) == [i \in 1..Len(s) |-> s[Len(s) + 1 - i]]

\* lines 1281-1320: the segments of one ORF on the exons
OrfSegments(exons, strand, orf) ==
    IF strand = "+"
    THEN SortedByStartEnd(ProjectExons(SortedIntervals(exons), 0, orf, strand))
    ELSE IF strand = "-"
    THEN SortedByStartEnd(
             ProjectExons(Reversed(SortedIntervals(exons)), 0, orf, strand))
    ELSE <<>>

\* [(x[1], x[2]) for x in segments if x[0] == "UTR"]
RECURSIVE UtrOf(_)
UtrOf(segments) ==
    IF segments = <<>> THEN <<>>
    ELSE (IF segments[1][1] = "UTR"
          THEN <<(<<segments[1][2], segments[1][3]>>)>> ELSE <<>>)
         \o UtrOf(Tail(segments))

\* lines 1264-1320: the body of the loop for one candidate; `state` holds
\* the transcript and loaded_bed12 so far
LoadOne(orf, state, primary_orf) ==
    LET t == state.t
        t1 == IF primary_orf
              THEN [t EXCEPT !.has_start_codon = orf.has_start_codon,
                             !.has_stop_codon = orf.has_stop_codon]
              ELSE t
    IN IF \/ ~(orf.thickStart >= 1 /\ orf.thickEnd <= cdna_length(t))
          \/ OrfLen(orf) # cdna_length(t)
       THEN [state EXCEPT !.t = t1]
       ELSE LET strand == IF t.strand = None THEN orf.strand ELSE t.strand
            IN [t |-> [t1 EXCEPT !.strand = strand,
                                 !.internal_orfs =
                                     Append(@, OrfSegments(t.exons, strand, orf))],
                loaded_bed12 |-> Append(state.loaded_bed12, orf)]

\* lines 1263-1320: the loop over the sorted candidates
RECURSIVE LoadLoop(_, _, _)
LoadLoop(orf_list, state, primary_orf) ==
    IF orf_list = <<>> THEN state
    ELSE Only({LoadLoop(Tail(orf_list), next, FALSE) :
                  next \in {LoadOne(orf_list[1], state, primary_orf)}})

\* Transcript.find_communities on CDS intervals: the communities of the
\* graph whose nodes are the distinct intervals (node i is the i-th of them
\* in sorted order) and whose edges join intersecting intervals
CdsCommunities(candidates) ==
    LET d == SortedPairs(Range(candidates))
        G == [nodes |-> 1..Len(d),
              edges |-> {e \in {{i, j} : i \in 1..Len(d), j \in 1..Len(d)} :
                            /\ Cardinality(e) = 2
                            /\ \A i \in e, j \in e :
                                  i # j => is_intersecting(d[i], d[j])}]
    IN {{d[i] : i \in c} : c \in AbstractlocusCommunities(G)}

\* lines 1352-1372: the maximal runs of consecutive positions
PositionRuns(positions) ==
    SortedPairs({<<a, b>> \in positions \X positions :
                    /\ a <= b
                    /\ \A x \in a..b : x \in positions
                    /\ (a - 1) \notin positions
                    /\ (b + 1) \notin positions})

RECURSIVE Flatten(_)
Flatten(lists) ==
    IF lists = <<>> THEN <<>> ELSE lists[1] \o Flatten(Tail(lists))

\* lines 1338-1375: combined_cds and combined_utr of several internal
\* ORFs whose CDS communities have the spans cds_spans
CombineSpans(t, cds_spans) ==
    Only({LET t1 == [t EXCEPT !.combined_cds = SortedPairs(cds_spans),
                              !.combined_utr = PositionRuns(utr_pos)]
          IN [t |-> t1,
              raised |-> IF cdna_length(t1) = combined_cds_length(t1)
                                                 + combined_utr_length(t1)
                         THEN "none" ELSE "AssertionError"] :
             utr_pos \in {(UNION {e[1]..e[2] : e \in Range(t.exons)})
                             \ (UNION {c[1]..c[2] : c \in cds_spans})}})

\* lines 1322-1375: combined_cds and combined_utr from the internal ORFs
CombineOrfs(t) ==
    IF Len(t.internal_orfs) = 1
    THEN [t |-> [t EXCEPT
                   !.combined_cds = SortedIntervals(CdsOf(t.internal_orfs[1])),
                   !.combined_utr = SortedIntervals(UtrOf(t.internal_orfs[1]))],
          raised |-> "none"]
    ELSE IF Len(t.internal_orfs) > 1
    THEN Only({CombineSpans(t, {<<SetMin({c[1] : c \in mc}),
                                  SetMax({c[2] : c \in mc})>> : mc \in communities}) :
                  communities \in {CdsCommunities(
                      Flatten([i \in 1..Len(t.internal_orfs) |->
                                  CdsOf(t.internal_orfs[i])]))}})
    ELSE [t |-> t, raised |-> "none"]

\* lines 1249-1382 of load_orfs, on the finalized transcript t and the
\* candidates that passed the filter of lines 1236-1243
LoadCandidates(t, candidate_orfs) ==
    LET t1 == [t EXCEPT !.combined_utr = <<>>, !.combined_cds = <<>>,
                        !.internal_orfs = <<>>, !.finalized = FALSE]
        kept == IF ~(Len(t1.exons) = 1 /\ t1.strand = None)
                THEN FilterOrfs(candidate_orfs, "strand", "+")
                ELSE FilterOrfs(candidate_orfs, "strand", candidate_orfs[1].strand)
    IN Only({
           Only({IF combined.raised # "none"
                 THEN [t |-> combined.t, loaded_bed12 |-> loaded.loaded_bed12,
                       raised |-> combined.raised]
                 ELSE IF combined.t.internal_orfs = <<>>
                 THEN Only({[t |-> g.t, loaded_bed12 |-> loaded.loaded_bed12,
                             raised |-> g.raised] :
                               g \in {Finalized(combined.t)}})
                 ELSE [t |-> [combined.t EXCEPT !.feature = "mRNA",
                                               !.finalized = TRUE],
                       loaded_bed12 |-> loaded.loaded_bed12, raised |-> "none"] :
                    combined \in {CombineOrfs(loaded.t)}}) :
           loaded \in {Only({LoadLoop(sorted, [t |-> t1, loaded_bed12 |-> <<>>], TRUE) :
                                sorted \in {SortedByCdsLen(kept)}})}})

\* Transcript.load_orfs once new_orfs, the list of the representatives of
\* the communities, is known: the transcript, loaded_bed12 and the
\* exception it leaves
LoadOrfs(transcript, loaded_bed12, new_orfs, minimal_secondary_orf_length) ==
    Only({IF f.raised # "none"
          THEN [t |-> f.t, loaded_bed12 |-> loaded_bed12, raised |-> f.raised]
          ELSE IF candidate_orfs = <<>>
          THEN [t |-> f.t, loaded_bed12 |-> loaded_bed12, raised |-> "none"]
          ELSE LoadCandidates(f.t, candidate_orfs) :
             f \in {Finalized(transcript)},
             candidate_orfs \in {SecondaryFilter(new_orfs,
                                                 minimal_secondary_orf_length)}})

\* orf_loading.minimal_secondary_orf_length of the sample configurations
SecondaryLengths == {0, 3}

\* Transcript.load_orfs(candidate_orfs)
load_orfs ==
    /\ orfs.pc = "load_orfs"
    /\ \E new_orfs \in NewOrfsChoices(orfs.candidate_orfs) :
          \E r \in {LoadOrfs(orfs.transcript, <<>>, new_orfs,
                        orfs.json_dict.orf_loading.minimal_secondary_orf_length)} :
             orfs' = [orfs EXCEPT !.pc = "loaded",
                                     !.transcript = r.t,
                                     !.new_orfs = new_orfs,
                                     !.loaded_bed12 = r.loaded_bed12,
                                     !.raised = r.raised]
    /\ UNCHANGED not_orfs

(***************************************************************************)
(* Transcript.split_by_cds on a transcript whose ORFs were loaded: the     *)
(* CDS boundaries are grouped and one child transcript is built per group. *)
(***************************************************************************)
\* self.blast_hits of the sample transcripts: for each target no hit, or
\* one HSP over the window of a loaded ORF or over the whole cDNA
OrfBlastHits(t, loaded_bed12) ==
    LET spans == {<<o.thickStart, o.thickEnd>> : o \in Range(loaded_bed12)}
                     \cup {<<1, cdna_length(t)>>}
        hsps == {<<>>} \cup {<<[query_hsp_start |-> s[1], query_hsp_end |-> s[2],
                                hsp_evalue |-> 0]>> : s \in spans}
    IN {Picked([i \in 1..Len(Targets) |-> [target |-> Targets[i], hsps |-> h[i]]],
               {i \in 1..Len(Targets) : h[i] # <<>>}) :
           h \in [1..Len(Targets) -> hsps]}

\* lines 543-568: the loop that groups cds_boundaries[i..] into
\* new_boundaries
RECURSIVE GroupBoundaries(_, _, _, _, _)
GroupBoundaries(cds_boundaries, i, new_boundaries, cds_hit_dict, leniency) ==
    IF i > Len(cds_boundaries) THEN new_boundaries
    ELSE LET cds_boundary == cds_boundaries[i]
             last == Len(new_boundaries)
             next ==
                 IF new_boundaries = <<>> THEN << <<cds_boundary>> >>
                 ELSE LET old_boundary == new_boundaries[last][Len(new_boundaries[last])]
                      IN IF MergeWithPrevious(leniency, cds_hit_dict[cds_boundary],
                                              cds_hit_dict[old_boundary])
                         THEN [new_boundaries EXCEPT
                                  ![last] = Append(@, cds_boundary)]
                         ELSE Append(new_boundaries, <<cds_boundary>>)
         IN GroupBoundaries(cds_boundaries, i + 1, next, cds_hit_dict, leniency)

\* lines 520-582: the groups of CDS boundaries split_by_cds builds its
\* children from, one list of (thickStart, thickEnd) keys per group
BoundaryGroups(loaded_bed12, blast_hits, json_dict) ==
    LET cds_boundaries == CdsBoundariesOf(loaded_bed12)
    IN IF json_dict.chimera_split.blast_check
       THEN GroupBoundaries(cds_boundaries, 1, <<>>,
                CdsHitDictOf(cds_boundaries, blast_hits,
                             json_dict.chimera_split.blast_params),
                json_dict.chimera_split.blast_params.leniency)
       ELSE [i \in 1..Len(cds_boundaries) |-> <<cds_boundaries[i]>>]

\* A kept exon, its genomic interval and its cDNA interval
KeptExon(new_exon, texon) ==
    [keep |-> TRUE,
     new_exon |-> <<Min2(new_exon[1], new_exon[2]), Max2(new_exon[1], new_exon[2])>>,
     texon |-> texon]

\* The C24 mutant: an exon that is not cut is dropped
DroppedExon(exon, texon) == [keep |-> FALSE, new_exon |-> exon, texon |-> texon]

\* A whole exon appended as it is (lines 637, 643, 651)
WholeExon(exon, texon) == [keep |-> TRUE, new_exon |-> exon, texon |-> texon]

DiscardedExon(exon, texon) == [keep |-> FALSE, new_exon |-> exon, texon |-> texon]

\* lines 629-763: what the loop body does with one exon whose cDNA
\* interval is texon
ChildExon(exon, texon, boundary, left, right, strand) ==
    IF boundary[1] <= texon[1] /\ texon[1] < texon[2] /\ texon[2] <= boundary[2]
    THEN WholeExon(exon, texon)
    ELSE IF texon[2] < boundary[1]
    THEN (IF ~left THEN WholeExon(exon, texon) ELSE DiscardedExon(exon, texon))
    ELSE IF texon[1] > boundary[2]
    THEN (IF ~right THEN WholeExon(exon, texon) ELSE DiscardedExon(exon, texon))
    ELSE IF texon[2] = boundary[1]
    THEN (IF ~left THEN KeptExon(exon, texon)
          ELSE IF strand = "+"
          THEN KeptExon(<<exon[2] - 1, exon[2]>>, <<texon[2] - 1, texon[2]>>)
          ELSE KeptExon(<<exon[1], exon[1] + 1>>, <<texon[2] - 1, texon[2]>>))
    ELSE IF texon[1] = boundary[2]
    THEN (IF ~right THEN KeptExon(exon, texon)
          ELSE IF strand = "+"
          THEN KeptExon(<<exon[1], exon[1] + 1>>, <<texon[1], texon[1] + 1>>)
          ELSE KeptExon(<<exon[2] - 1, exon[2]>>, <<texon[2] - 1, texon[2]>>))
    ELSE IF texon[1] <= boundary[1] /\ boundary[1] <= boundary[2]
            /\ boundary[2] <= texon[2]
    THEN KeptExon(
             IF strand = "-"
             THEN <<IF right THEN exon[2] - (boundary[2] - texon[1]) ELSE exon[1],
                    IF left THEN exon[1] + (texon[2] - boundary[1]) ELSE exon[2]>>
             ELSE <<IF left THEN exon[2] - (texon[2] - boundary[1]) ELSE exon[1],
                    IF right THEN exon[1] + (boundary[2] - texon[1]) ELSE exon[2]>>,
             <<IF left THEN boundary[1] ELSE texon[1],
               IF right THEN boundary[2] ELSE texon[2]>>)
    ELSE IF texon[1] <= boundary[1] /\ boundary[1] <= texon[2]
            /\ texon[2] <= boundary[2]
    THEN (IF ~left THEN KeptExon(exon, texon)
          ELSE KeptExon(
                   IF strand = "-"
                   THEN <<exon[1], exon[1] + (texon[2] - boundary[1])>>
                   ELSE <<exon[2] - (texon[2] - boundary[1]), exon[2]>>,
                   <<boundary[1], texon[2]>>))
    ELSE IF texon[2] >= boundary[2] /\ boundary[2] >= texon[1]
            /\ texon[1] >= boundary[1]
    THEN (IF ~right THEN KeptExon(exon, texon)
          ELSE KeptExon(
                   IF strand = "-"
                   THEN <<exon[2] - (boundary[2] - texon[1]), exon[2]>>
                   ELSE <<exon[1], exon[1] + (boundary[2] - texon[1])>>,
                   <<texon[1], boundary[2]>>))
    ELSE KeptExon(exon, texon)

\* lines 627-766: the loop over the exons in transcript order, tlength cDNA
\* bases before; the kept exons and the cDNA interval they cover
RECURSIVE ChildExons(_, _, _, _, _, _, _)
ChildExons(exon_list, tlength, boundary, left, right, strand, acc) ==
    IF exon_list = <<>> THEN acc
    ELSE LET exon == exon_list[1]
             elength == exon[2] - exon[1] + 1
             step == ChildExon(exon, <<tlength + 1, tlength + elength>>,
                               boundary, left, right, strand)
         IN ChildExons(Tail(exon_list), tlength + elength, boundary, left, right,
                       strand,
                       IF step.keep
                       THEN [my_exons |-> Append(acc.my_exons, step.new_exon),
                             tstart |-> Min2(acc.tstart, step.texon[1]),
                             tend |-> Max2(acc.tend, step.texon[2])]
                       ELSE acc)

\* lines 782-794: a BED12 record moved to the cDNA coordinates of the child
MovedBed12(obj, tstart, tend) ==
    [obj EXCEPT !.start = 1,
                !.end = Min2(obj.end, tend) - tstart + 1,
                !.thickStart = Min2(obj.thickStart, tend) - tstart + 1,
                !.thickEnd = Min2(obj.thickEnd, tend) - tstart + 1]

\* Transcript.selected_cds_length
selected_cds_length(t) ==
    IF Len(t.combined_cds) = 0 THEN 0 ELSE IntervalsLength(selected_cds(t))

\* lines 811-823: the span of the new child overlaps that of an earlier one
SpansOverlap(spans, nspan) ==
    \E i \in 1..Len(spans) : overlap(spans[i], nspan, 0) > 0

\* The C22 mutant: a child without CDS is appended like any other
ChildAppended(acc, r, nspan) ==
    IF r.raised # "none"
    THEN [acc EXCEPT !.raised = r.raised]
    ELSE [acc EXCEPT !.children = Append(@, [t |-> r.t,
                                             loaded_bed12 |-> r.loaded_bed12]),
                     !.spans = Append(@, nspan)]

\* lines 800-825: the child after load_orfs left r: it is refused without
\* a CDS or when its span overlaps that of an earlier child, else appended
ChildChecked(acc, r, nspan) ==
    IF r.raised # "none"
    THEN [acc EXCEPT !.raised = r.raised]
    ELSE IF selected_cds_length(r.t) <= 0
    THEN [acc EXCEPT !.raised = "InvalidTranscript"]
    ELSE IF SpansOverlap(acc.spans, nspan)
    THEN [acc EXCEPT !.raised = "InvalidTranscript"]
    ELSE [acc EXCEPT !.children = Append(@, [t |-> r.t,
                                             loaded_bed12 |-> r.loaded_bed12]),
                     !.spans = Append(@, nspan)]

\* lines 796-825: the finalized child loads the ORFs of its group; one
\* outcome for each order in which the communities of ORFs can be iterated
ChildLoad(json_dict, acc, new_bed12s, child) ==
    UNION {{ChildChecked(acc, r, <<child.start, child.end>>) :
               r \in {LoadOrfs(child, <<>>, new_orfs,
                          json_dict.orf_loading.minimal_secondary_orf_length)}} :
           new_orfs \in NewOrfsChoices(new_bed12s)}

\* lines 773-825: the child of `group` from the exons kept for it
ChildFromExons(t, json_dict, group, acc, built) ==
    IF built.my_exons = <<>>
    THEN {[acc EXCEPT !.raised = "AssertionError"]}
    ELSE
    LET mine == {i \in 1..Len(acc.loaded_bed12) :
                    <<acc.loaded_bed12[i].thickStart,
                      acc.loaded_bed12[i].thickEnd>> \in Range(group)}
        moved == [i \in 1..Len(acc.loaded_bed12) |->
                     IF i \in mine
                     THEN MovedBed12(acc.loaded_bed12[i], built.tstart, built.tend)
                     ELSE acc.loaded_bed12[i]]
        new_transcript ==
            [NewTranscript(SetMin({e[1] : e \in Range(built.my_exons)}),
                           SetMax({e[2] : e \in Range(built.my_exons)}),
                           t.strand)
                EXCEPT !.exons = built.my_exons, !.feature = "mRNA"]
    IN UNION {IF \E i \in mine : acc1.loaded_bed12[i].invalid
              THEN {[acc1 EXCEPT !.raised = "AssertionError"]}
              ELSE IF f.raised # "none"
              THEN {[acc1 EXCEPT !.raised = f.raised]}
              ELSE ChildLoad(json_dict, acc1, Picked(acc1.loaded_bed12, mine),
                             IF Len(f.t.exons) = 1
                             THEN [f.t EXCEPT !.strand = None] ELSE f.t) :
                 acc1 \in {[acc EXCEPT !.loaded_bed12 = moved]},
                 f \in {Finalized(new_transcript)}}

\* lines 594-825: one iteration of the loop over the groups of boundaries;
\* `acc` holds the children and their spans so far, the records of
\* loaded_bed12 as the loop leaves them and the exception raised
ChildStep(t, json_dict, groups, counter, acc) ==
    LET group == groups[counter]
        ordered == IF t.strand = "-" THEN Reversed(SortedIntervals(t.exons))
                   ELSE SortedIntervals(t.exons)
    IN UNION {ChildFromExons(t, json_dict, group, acc, built) :
                 built \in {ChildExons(ordered, 0,
                                       <<group[1][1], group[Len(group)][2]>>,
                                       counter # 1, counter # Len(groups), t.strand,
                                       [my_exons |-> <<>>, tstart |-> Inf,
                                        tend |-> -Inf])}}

\* lines 594-825: the children of groups[counter..], after those of `acc`:
\* the set of the outcomes the loop can have
RECURSIVE ChildOutcomes(_, _, _, _, _)
ChildOutcomes(t, json_dict, groups, counter, acc) ==
    IF counter > Len(groups) \/ acc.raised # "none" THEN {acc}
    ELSE UNION {ChildOutcomes(t, json_dict, groups, counter + 1, next) :
                   next \in ChildStep(t, json_dict, groups, counter, acc)}

\* The C14 mutant: the transcript comes back as a child does, without its
\* strand when it has one exon
SelfAsChild(t, loaded_bed12) ==
    << [t |-> IF Len(t.exons) = 1 THEN [t EXCEPT !.strand = None] ELSE t,
        loaded_bed12 |-> loaded_bed12] >>

\* lines 517 and 585: new_transcripts = [self]
SelfOnly(t, loaded_bed12) == << [t |-> t, loaded_bed12 |-> loaded_bed12] >>

\* line 516: below this number of internal ORFs the transcript is not split
MinimumOrfsToSplit == 2

\* Transcript.split_by_cds on the transcript load_orfs has left
split_by_cds ==
    /\ orfs.pc = "loaded"
    /\ orfs.raised = "none"
    /\ LET t == orfs.transcript
           self == [orfs EXCEPT !.pc = "split",
                                !.new_transcripts = "self",
                                !.children = SelfOnly(t, orfs.loaded_bed12)]
       IN IF Len(t.internal_orfs) < MinimumOrfsToSplit
          THEN orfs' = self
          ELSE \E blast_hits \in
                      IF orfs.json_dict.chimera_split.blast_check
                      THEN OrfBlastHits(t, orfs.loaded_bed12) ELSE {<<>>} :
                 \E groups \in {BoundaryGroups(orfs.loaded_bed12, blast_hits,
                                                orfs.json_dict)} :
                    IF Len(groups) = 1
                    THEN orfs' = [self EXCEPT !.blast_hits = blast_hits,
                                              !.cds_boundaries = groups]
                    ELSE \E r \in ChildOutcomes(t, orfs.json_dict, groups, 1,
                                     [children |-> <<>>, spans |-> <<>>,
                                      loaded_bed12 |-> orfs.loaded_bed12,
                                      raised |-> "none"]) :
                            orfs' = [orfs EXCEPT
                                        !.pc = "split",
                                        !.blast_hits = blast_hits,
                                        !.cds_boundaries = groups,
                                        !.loaded_bed12 = r.loaded_bed12,
                                        !.raised = r.raised,
                                        !.children = IF r.raised = "none"
                                                     THEN r.children ELSE <<>>,
                                        !.new_transcripts = "children"]
    /\ UNCHANGED not_orfs

\* self.json_dict of the sample configurations; minimal_hsp_overlap is in
\* percent
OrfJsonDicts ==
    {[orf_loading |-> [minimal_secondary_orf_length |-> minimal],
      chimera_split |->
        [blast_check |-> blast_check,
         blast_params |-> [leniency |-> leniency,
                           minimal_hsp_overlap |-> 50,
                           hsp_evalue |-> 1]]] :
        minimal \in SecondaryLengths,
        blast_check \in BOOLEAN,
        leniency \in {"STRINGENT", "LENIENT", "PERMISSIVE"}}

OrfsInit ==
    /\ locus = NewLocus
    /\ called = "none"
    /\ raised = "none"
    /\ fc = NoFrame
    /\ xcheck = NoCheck
    /\ the_transcript = NoTranscript
    /\ split = NoSplit
    /\ ov = NoCall
    /\ \E t \in OrfTranscripts, json_dict \in OrfJsonDicts :
          \E candidate_orfs \in CandidateOrfLists(IntervalsLength(t.exons)) :
              orfs = OrfFrame("load_orfs", t, candidate_orfs, json_dict)

OrfsNext ==
    \/ load_orfs
    \/ split_by_cds

SpecOrfs == OrfsInit /\ [][OrfsNext]_vars

(***************************************************************************)
(* Claims about load_orfs.                                                 *)
(***************************************************************************)
\* The candidate ORFs whose windows are chained to that of candidate i by
\* windows that have a position in common
RECURSIVE WindowCluster(_)
WindowCluster(S) ==
    LET c == orfs.candidate_orfs
        next == S \cup {j \in DOMAIN c :
                           \E i \in S :
                               \E x \in (c[i].thickStart)..(c[i].thickEnd) :
                                   x \in (c[j].thickStart)..(c[j].thickEnd)}
    IN IF next = S THEN S ELSE WindowCluster(next)

\* load_orfs has returned normally and split_by_cds has not run yet
JustLoaded == orfs.pc = "loaded" /\ orfs.raised = "none"

\* C15: load_orfs clusters the candidate ORFs by the overlap of their
\* (thickStart, thickEnd) windows and keeps exactly one ORF of every
\* community, one of greatest CDS length; two valid candidate ORFs of the
\* same strand whose windows are disjoint give 2 internal ORFs.
C15_OneOrfPerCommunity ==
    JustLoaded =>
        LET c == orfs.candidate_orfs
            kept == Range(orfs.loaded_bed12)
        IN /\ \A i \in DOMAIN c :
                 LET members == {c[j] : j \in WindowCluster({i})}
                 IN /\ Cardinality(members \cap kept) = 1
                    /\ \A o \in members \cap kept :
                          \A m \in members : cds_len(m) <= cds_len(o)
           /\ (/\ Len(c) = 2
               /\ c[1].strand = c[2].strand
               /\ ~c[1].invalid /\ ~c[2].invalid
               /\ WindowCluster({1}) = {1})
              => Len(orfs.transcript.internal_orfs) = 2

\* The CDS length of internal ORF i of the loaded transcript
InternalOrfCdsLength(i) ==
    IntervalsLength(CdsOf(orfs.transcript.internal_orfs[i]))

C17_ShortSecondaryOrfsDropped ==
    (JustLoaded /\ \A i \in DOMAIN orfs.candidate_orfs :
                      orfs.candidate_orfs[i].strand = "+") =>
        LET minimal == orfs.json_dict.orf_loading.minimal_secondary_orf_length
            longest == {r \in Range(orfs.new_orfs) :
                           \A o \in Range(orfs.new_orfs) : cds_len(o) <= cds_len(r)}
            kept == Range(orfs.loaded_bed12)
        IN /\ \A r \in kept : cds_len(r) < minimal => r \in longest
           /\ longest \cap kept # {}

(***************************************************************************)
(* Claims about the children of split_by_cds.                              *)
(***************************************************************************)
\* split_by_cds has built children, one per group of CDS boundaries, and
\* raised nothing
ChildrenYielded ==
    /\ orfs.pc = "split"
    /\ orfs.new_transcripts = "children"
    /\ orfs.raised = "none"

\* The genomic positions of the i-th child
ChildSpan(i) == orfs.children[i].t.start .. orfs.children[i].t.end

\* The windows (thickStart, thickEnd) of the ORFs the transcript held when
\* split_by_cds was called, in the order of the CDS boundaries
WindowsAtCall == Flatten(orfs.cds_boundaries)

\* C12: whenever split_by_cds yields two or more children without raising,
\* the genomic spans [start, end] of the children are pairwise
\* non-overlapping: no genomic position belongs to two children (an overlap
\* would have made the split raise InvalidTranscript).
C12_ChildrenSpansDisjoint ==
    (ChildrenYielded /\ Len(orfs.children) >= 2) =>
        \A i, j \in 1..Len(orfs.children) :
            i # j => ChildSpan(i) \cap ChildSpan(j) = {}

\* The transcript held two ORFs whose windows have no position in common,
\* no BLAST hit was recorded and the leniency is PERMISSIVE
TwoEvidenceFreeOrfs ==
    /\ orfs.pc = "split"
    /\ Len(orfs.transcript.internal_orfs) = 2
    /\ orfs.json_dict.chimera_split.blast_params.leniency = "PERMISSIVE"
    /\ orfs.blast_hits = <<>>
    /\ Len(WindowsAtCall) = 2
    /\ (WindowsAtCall[1][1]..WindowsAtCall[1][2])
          \cap (WindowsAtCall[2][1]..WindowsAtCall[2][2]) = {}

\* C13: split_by_cds on a finalized transcript holding 2 non-overlapping
\* ORFs, neither with BLAST-hit evidence, under PERMISSIVE leniency yields
\* exactly 2 children, and each child has selected_cds_length > 0.
C13_TwoOrfsTwoChildren ==
    TwoEvidenceFreeOrfs =>
        /\ ChildrenYielded
        /\ Len(orfs.children) = 2
        /\ \A i \in 1..2 : selected_cds_length(orfs.children[i].t) > 0

\* The transcript had fewer than 2 internal ORFs, or one group of CDS
\* boundaries was left after the merging
NothingToSplit ==
    /\ orfs.pc = "split"
    /\ \/ Len(orfs.transcript.internal_orfs) < 2
       \/ Len(orfs.cds_boundaries) = 1

IsNone(value) == ToString(value) = ToString(None)

\* C21: for a transcript with no CDS, selected_internal_orf_index is None
\* after finalize(); for a transcript with CDS it is a valid index into
\* internal_orfs (0 <= index < number_internal_orfs).
C21_SelectedIndexNoneOrValid ==
    the_transcript.finalized =>
        IF the_transcript.combined_cds = <<>>
        THEN IsNone(the_transcript.selected_internal_orf_index)
        ELSE /\ ~IsNone(the_transcript.selected_internal_orf_index)
             /\ the_transcript.selected_internal_orf_index
                    \in 0..(Len(the_transcript.internal_orfs) - 1)

\* The positions of a list of intervals
PositionsOf(intervals) == UNION {i[1]..i[2] : i \in Range(intervals)}

\* C25: when finalize() infers the UTR of a transcript given CDS but no UTR
\* and does not fail, every combined_utr interval has start <= end, lies
\* inside one exon and shares no position with any CDS interval, and
\* combined_utr is exactly the exon positions not covered by CDS.
C25_InferredUtrComplementsCds ==
    [][(/\ ~the_transcript.finalized
        /\ the_transcript.combined_utr = <<>>
        /\ the_transcript.combined_cds # <<>>
        /\ cdna_length(the_transcript) > combined_cds_length(the_transcript)
        /\ the_transcript'.finalized) =>
          LET t == the_transcript'
          IN /\ \A u \in Range(t.combined_utr) :
                    /\ u[1] <= u[2]
                    /\ \E e \in Range(t.exons) : e[1] <= u[1] /\ u[2] <= e[2]
                    /\ (u[1]..u[2]) \cap PositionsOf(t.combined_cds) = {}
             /\ PositionsOf(t.combined_utr) =
                    PositionsOf(t.exons) \ PositionsOf(t.combined_cds)]_vars

GenomicPosition(t, p) ==
    LET positions == PositionsOf(t.exons)
    IN CHOOSE x \in positions :
           IF t.strand = "-"
           THEN Cardinality({y \in positions : y >= x}) = p
           ELSE Cardinality({y \in positions : y <= x}) = p

\* The CDS and UTR segments of an internal ORF, as a set of indices
SubSegments(segments) ==
    {k \in 1..Len(segments) : segments[k][1] \in {"CDS", "UTR"}}

\* C23: for every ORF projected by load_orfs (either strand), the genomic
\* positions tagged CDS are exactly the image of the cDNA window
\* [thickStart, thickEnd] under the strand-aware cDNA-to-genome mapping;
\* the CDS and UTR sub-segments are pairwise disjoint, each has
\* start <= end and lies in one exon, and together they cover each exon
\* exactly; hence the CDS segments sum to thickEnd - thickStart + 1.
C23_ProjectionIsImageOfWindow ==
    JustLoaded =>
        \A i \in 1..Len(orfs.loaded_bed12) :
            LET t == orfs.transcript
                orf == orfs.loaded_bed12[i]
                segments == t.internal_orfs[i]
                sub == SubSegments(segments)
            IN /\ PositionsOf(CdsOf(segments)) =
                      {GenomicPosition(t, p) : p \in orf.thickStart..orf.thickEnd}
               /\ \A k \in sub :
                      /\ segments[k][2] <= segments[k][3]
                      /\ \E e \in Range(t.exons) :
                            e[1] <= segments[k][2] /\ segments[k][3] <= e[2]
               /\ \A k, l \in sub :
                      k # l => (segments[k][2]..segments[k][3])
                                  \cap (segments[l][2]..segments[l][3]) = {}
               /\ UNION {segments[k][2]..segments[k][3] : k \in sub} =
                      PositionsOf(t.exons)
               /\ InternalOrfCdsLength(i) = orf.thickEnd - orf.thickStart + 1

\* C23 witness: an ORF was projected on the minus strand of a transcript of
\* two exons, with its CDS on both
C23_Witness ==
    /\ JustLoaded
    /\ orfs.transcript.strand = "-"
    /\ Len(orfs.transcript.exons) = 2
    /\ Len(orfs.loaded_bed12) >= 1
    /\ Len(CdsOf(orfs.transcript.internal_orfs[1])) = 2
    /\ UtrOf(orfs.transcript.internal_orfs[1]) # <<>>

(***************************************************************************)
(* Claims about the exons split_by_cds keeps outside the CDS boundary.     *)
(***************************************************************************)
\* The exons of the split transcript in transcript order
ParentExons ==
    IF orfs.transcript.strand = "-"
    THEN Reversed(SortedIntervals(orfs.transcript.exons))
    ELSE SortedIntervals(orfs.transcript.exons)

\* The cDNA interval of the k-th exon in transcript order
ParentTexon(k) ==
    LET before == IntervalsLength(SubSeq(ParentExons, 1, k - 1))
    IN <<before + 1, before + ParentExons[k][2] - ParentExons[k][1] + 1>>

\* The boundary of the c-th group of CDS boundaries
GroupBoundary(c) ==
    <<orfs.cds_boundaries[c][1][1],
      orfs.cds_boundaries[c][Len(orfs.cds_boundaries[c])][2]>>

\* C24: an exon lying wholly outside the CDS boundary of a child (in
\* transcript coordinates) is discarded if and only if a neighbouring
\* boundary group exists on that side: the first child keeps every exon
\* upstream of its boundary and the last child keeps every exon downstream
\* of its boundary.
C24_OuterExonsKeptOnlyAtTheEnds ==
    ChildrenYielded =>
        \A c \in 1..Len(orfs.children), k \in 1..Len(ParentExons) :
            LET kept == ParentExons[k] \in Range(orfs.children[c].t.exons)
            IN /\ ParentTexon(k)[2] < GroupBoundary(c)[1] => (kept <=> c = 1)
               /\ ParentTexon(k)[1] > GroupBoundary(c)[2] =>
                      (kept <=> c = Len(orfs.children))

\* C24 witness: the first child kept an exon upstream of its boundary that
\* the second child discarded
C24_Witness ==
    /\ ChildrenYielded
    /\ Len(orfs.children) = 2
    /\ \E k \in 1..Len(ParentExons) :
          /\ ParentTexon(k)[2] < GroupBoundary(1)[1]
          /\ ParentExons[k] \in Range(orfs.children[1].t.exons)
          /\ ParentExons[k] \notin Range(orfs.children[2].t.exons)

(***************************************************************************)
(* Claims about the BLAST evidence of a CDS boundary.                      *)
(***************************************************************************)
\* The highest-scoring HSP of a hit
BestHsp(hit) ==
    CHOOSE hsp \in Range(hit.hsps) :
        \A other \in Range(hit.hsps) : other.hsp_bits <= hsp.hsp_bits

\* The HSP overlaps the boundary by at least minimal_hsp_overlap (in percent)
\* of the length of the boundary
OverlapsEnough(hsp, cds_run) ==
    100 * overlap(cds_run, <<hsp.query_hsp_start, hsp.query_hsp_end>>, 0)
        >= split.json_dict.chimera_split.blast_params.minimal_hsp_overlap
               * (cds_run[2] + 1 - cds_run[1])

\* split_by_cds has filled cds_hit_dict
HitsCounted == split.pc \in {"new_boundaries", "new_transcripts", "done"}
                  /\ split.json_dict.chimera_split.blast_check
                  /\ Len(split.loaded_bed12) >= 2

\* C26: with the BLAST check enabled, the target of a hit is counted as
\* evidence for a CDS boundary only when the highest-scoring HSP of the hit
\* overlaps that boundary by at least minimal_hsp_overlap times the length
\* of the boundary; lower-scoring HSPs never add the target on their own.
C26_OnlyBestHspCounts ==
    HitsCounted =>
        \A cds_run \in DOMAIN split.cds_hit_dict :
            \A hit \in Range(split.blast_hits) :
                hit.target \in split.cds_hit_dict[cds_run]
                    => OverlapsEnough(BestHsp(hit), cds_run)

(***************************************************************************)
(* Claims about what split_by_cds leaves of its input.                     *)
(***************************************************************************)
\* The coordinates of the ORF records
OrfCoordinates(loaded_bed12) ==
    [i \in 1..Len(loaded_bed12) |->
        <<loaded_bed12[i].start, loaded_bed12[i].end,
          loaded_bed12[i].thickStart, loaded_bed12[i].thickEnd>>]

\* C27: split_by_cds does not modify its input transcript: when it has
\* yielded its elements the exons, start, end, strand and internal ORFs of
\* the parent and the coordinates (start, end, thickStart, thickEnd) of its
\* loaded ORF records are as before the call.
C27_SplitLeavesParentUnchanged ==
    [][(orfs.pc = "loaded" /\ orfs'.pc = "split" /\ orfs'.raised = "none") =>
          /\ orfs'.transcript = orfs.transcript
          /\ OrfCoordinates(orfs'.loaded_bed12) = OrfCoordinates(orfs.loaded_bed12)]_vars

(***************************************************************************)
(* Claims about failed calls and the monoexonic flag of the locus.         *)
(***************************************************************************)
\* C28: a failed locus mutation leaves the locus unchanged: when
\* add_transcript_to_locus raises NotInLocusError or
\* remove_transcript_from_locus raises KeyError, the transcripts, start,
\* end, chrom, strand, initialized flag, monoexonic flag and all derived
\* sets of the locus are exactly as before the call.
C28_FailedCallLeavesLocusUnchanged ==
    [][(raised' \in {"NotInLocusError", "KeyError"}) => locus' = locus]_vars

\* C29: after any sequence of add_transcript_to_locus and
\* remove_transcript_from_locus calls, locus.monoexonic is True if and only
\* if every transcript the locus owns is monoexonic.
C29_MonoexonicIffAllOwnedAre ==
    locus.monoexonic <=> \A t \in Owned : t.monoexonic


(***************************************************************************)
(* Claim about the termination of the frontier expansion                   *)
(***************************************************************************)

\* The clique is still in the index of one of its nodes
InIndex(frame, clique) ==
    \E node \in DOMAIN frame.nodes_to_clique_dict :
        clique \in frame.nodes_to_clique_dict[node]

====
